---- MODULE Spec2Model ----
(***************************************************************************)
(* Model of classmarkets/go-dns-resolver: the bounded LRU response cache   *)
(* (cache/cache.go) and the recursive resolution walk (resolver.go).       *)
(*                                                                         *)
(* Time is counted in ticks of one second; the duration -1*time.Second     *)
(* that the code uses for "not cached" is the integer -1.                  *)
(***************************************************************************)
EXTENDS Integers, Sequences, FiniteSets, TLC

VARIABLES
    cache,      \* the cache.Cache object: [maxSize, cache (map), lru (list)]
    now,        \* the wall clock read by time.Now()
    last,       \* the call made last on the cache at the current instant:
                \* its arguments and results (forgotten when the clock ticks)
    accessLog,  \* history: keys of live entries by order of last access
    panicked,   \* TRUE once Update reached "map and list out of sync"
    R,          \* the Resolver: [CachePolicy, ip4disabled, ip6disabled,
                \* systemServerAddrs]
    pc,         \* where the current call of Query stands: "idle" (no call
                \* yet), "bootstrap" (in discoverRootServers), "loop" (at the
                \* top of the walk loop), "retry" (at the label retry), "done"
    resolver,   \* the resolver value r made by Resolver.Query for this call
    rset,       \* the RecordSet rs of this call
    qerr,       \* the error this call returned
    stack,      \* the stack of frames [q, altNames, addrs]
    trace,      \* rs.Trace
    rootAddrs,  \* the root server addresses of this call
    curAddr,    \* the local variable addr of the loop body
    boot,       \* discoverRootServers: [i, err], the next system server
    net,        \* the servers: by <<question, addr>> that a server has been
                \* asked, whether it has no expectation left for it
    waiting,    \* the call of doQuery is in ExchangeContext: the query is
                \* sent, the reply has not come
    exchanged,  \* history: this call has sent a query on the network
    lastEx,     \* history: the latest doQuery call of this call of Query
    prev,       \* history: the outcome of the previous call of Query
    mu,         \* the thread that holds Resolver.mu, or NoThread
    cmu,        \* the thread that holds Cache.mu, or NoThread
    thr,        \* the threads that call the Resolver side by side: what
                \* each one is calling and where in it it stands
    invoked     \* history: the latest call of SetBootstrapServers or of a
                \* cache policy, with its arguments and what it returned

cacheVars == <<cache, now, last, accessLog, panicked>>

walkVars == <<R, pc, resolver, rset, qerr, stack, trace, rootAddrs, curAddr,
              boot, net,
              exchanged, lastEx, prev, waiting>>

lockVars == <<mu, cmu, thr>>

vars == <<cache, now, last, accessLog, panicked, R, pc, resolver, rset, qerr,
          stack, trace, rootAddrs, curAddr, boot, net, exchanged, lastEx, prev, waiting,
          mu, cmu, thr, invoked>>

----------------------------------------------------------------------------
(* DNS messages.  A record is [Name, Rrtype, Ttl, Data]: Data is the       *)
(* address of an A/AAAA record and the target name of an NS/CNAME record.  *)
(* A message is [Rcode, Authoritative, Answer, Ns, Extra]; NoMsg is the    *)
(* nil *dns.Msg.                                                           *)

RR(name, rrtype, ttl, data) ==
    [Name |-> name, Rrtype |-> rrtype, Ttl |-> ttl, Data |-> data]

Msg(rcode, aa, answer, ns, extra) ==
    [Rcode |-> rcode, Authoritative |-> aa,
     Answer |-> answer, Ns |-> ns, Extra |-> extra]

NoMsg == [nil |-> TRUE]
NoKey == <<>>

----------------------------------------------------------------------------
(* Bounds of the cache specification *)

MaxCap == 2       \* largest capacity passed to cache.New
MaxTime == 2      \* the clock stops ticking here
MaxTTL == 1       \* largest ttl passed to Update

(* Values the cache is exercised with *)

CQuestions == {[Name |-> "a.", Qtype |-> "A"], [Name |-> "b.", Qtype |-> "A"]}
CAddrs == {"s1", "s2"}
CKeys == {<<q, a>> : q \in CQuestions, a \in CAddrs} \ {<<[Name |-> "b.", Qtype |-> "A"], "s2">>}
CMsgs == {Msg("NOERROR", TRUE, <<RR("a.", "A", 1, "192.0.2.1")>>, <<>>, <<>>),
          Msg("NXDOMAIN", TRUE, <<>>, <<>>, <<>>)}

----------------------------------------------------------------------------
(* Sequence helpers standing for container/list *)

RECURSIVE SeqRemove(_, _)
SeqRemove(s, x) ==
    IF s = <<>> THEN <<>>
    ELSE IF Head(s) = x THEN SeqRemove(Tail(s), x)
    ELSE <<Head(s)>> \o SeqRemove(Tail(s), x)

SeqSet(s) == {s[i] : i \in 1..Len(s)}

ListMoveToBack(l, key) ==
    IF key \in SeqSet(l) THEN Append(SeqRemove(l, key), key) ELSE l

ListPushBack(l, key) == Append(l, key)

ListRemove(l, key) == SeqRemove(l, key)

MapDelete(m, key) == [k \in (DOMAIN m) \ {key} |-> m[k]]

MapPut(m, key, v) == [k \in (DOMAIN m) \cup {key} |-> IF k = key THEN v ELSE m[k]]

EmptyMap == [k \in {} |-> NoMsg]

(* dns.Msg.Copy: a deep copy, structurally equal to its argument *)
MsgCopy(m) == m

----------------------------------------------------------------------------
(* cache.Cache *)

New(n) == [maxSize |-> n, cache |-> EmptyMap, lru |-> <<>>]

Clear(c) == [c EXCEPT !.cache = EmptyMap, !.lru = <<>>]

IsExpiredAtDeadline(ci, t) == ci.addedAt + ci.ttl <= t

IsExpired(ci, t) == ci.addedAt + ci.ttl < t

LookupWithoutMoveToBack(c, key, t) ==
    IF key \notin DOMAIN c.cache
    THEN [c |-> c, msg |-> NoMsg, rtt |-> 0, age |-> -1]
    ELSE LET ci == c.cache[key] IN
         IF IsExpired(ci, t)
         THEN [c |-> [c EXCEPT !.lru = ListRemove(@, key),
                               !.cache = MapDelete(@, key)],
               msg |-> NoMsg, rtt |-> 0, age |-> -1]
         ELSE [c |-> c,
               msg |-> MsgCopy(ci.msg), rtt |-> 0, age |-> t - ci.addedAt]

LookupKeepsExpired(c, key, t) ==
    IF key \notin DOMAIN c.cache
    THEN [c |-> c, msg |-> NoMsg, rtt |-> 0, age |-> -1]
    ELSE LET ci == c.cache[key] IN
         IF IsExpired(ci, t)
         THEN [c |-> c, msg |-> NoMsg, rtt |-> 0, age |-> -1]
         ELSE [c |-> [c EXCEPT !.lru = ListMoveToBack(@, key)],
               msg |-> MsgCopy(ci.msg), rtt |-> 0, age |-> t - ci.addedAt]

Lookup(c, key, t) ==
    IF key \notin DOMAIN c.cache
    THEN [c |-> c, msg |-> NoMsg, rtt |-> 0, age |-> -1]
    ELSE LET ci == c.cache[key] IN
         IF IsExpired(ci, t)
         THEN [c |-> [c EXCEPT !.lru = ListRemove(@, key),
                               !.cache = MapDelete(@, key)],
               msg |-> NoMsg, rtt |-> 0, age |-> -1]
         ELSE [c |-> [c EXCEPT !.lru = ListMoveToBack(@, key)],
               msg |-> MsgCopy(ci.msg), rtt |-> 0, age |-> t - ci.addedAt]

RECURSIVE pruneKeepsListElement(_)
pruneKeepsListElement(c) ==
    IF Cardinality(DOMAIN c.cache) > c.maxSize /\ c.lru # <<>>
    THEN pruneKeepsListElement([c EXCEPT !.cache = MapDelete(@, Head(c.lru))])
    ELSE c

RECURSIVE prune(_)
prune(c) ==
    IF Cardinality(DOMAIN c.cache) > c.maxSize /\ c.lru # <<>>
    THEN prune([c EXCEPT !.cache = MapDelete(@, Head(c.lru)),
                         !.lru = Tail(@)])
    ELSE c

UpdateKeepsInsertionTime(c, key, resp, ttl, t) ==
    LET old == IF key \in DOMAIN c.cache THEN c.cache[key].addedAt ELSE t
        ci == [msg |-> MsgCopy(resp), addedAt |-> old, ttl |-> ttl]
        l  == IF key \notin DOMAIN c.cache
              THEN ListPushBack(c.lru, key)
              ELSE ListMoveToBack(c.lru, key)
    IN prune([c EXCEPT !.lru = l, !.cache = MapPut(@, key, ci)])

Update(c, key, resp, ttl, t) ==
    LET ci == [msg |-> MsgCopy(resp), addedAt |-> t, ttl |-> ttl]
        l  == IF key \notin DOMAIN c.cache
              THEN ListPushBack(c.lru, key)
              ELSE ListMoveToBack(c.lru, key)
    IN prune([c EXCEPT !.lru = l, !.cache = MapPut(@, key, ci)])

OutOfSync(c) == Len(c.lru) # Cardinality(DOMAIN c.cache)

----------------------------------------------------------------------------
(* History of accesses, kept apart from the list the code maintains *)

Touch(log, key) == Append(SeqRemove(log, key), key)

RECURSIVE Restrict(_, _)
Restrict(log, keep) ==
    IF log = <<>> THEN <<>>
    ELSE IF Head(log) \in keep THEN <<Head(log)>> \o Restrict(Tail(log), keep)
    ELSE Restrict(Tail(log), keep)

LastN(s, n) == IF Len(s) <= n THEN s ELSE SubSeq(s, Len(s) - n + 1, Len(s))

(* the call that came directly before, when it was made on the same key at
   the same instant *)
Follows(call, key) ==
    IF call.key = key THEN call.op ELSE "none"

NoCall == [op |-> "none", key |-> NoKey, msg |-> NoMsg, ttl |-> 0, age |-> -1,
           removed |-> 0, follows |-> "none"]

----------------------------------------------------------------------------
(* The cache exercised through its public methods *)

CUpdate ==
    \E key \in CKeys, resp \in CMsgs, ttl \in 1..MaxTTL :
        LET c == Update(cache, key, resp, ttl, now) IN
        /\ cache' = c
        /\ panicked' = (panicked \/ OutOfSync(c))
        /\ last' = [op |-> "Update", key |-> key, msg |-> resp, ttl |-> ttl,
                    age |-> -1,
                    removed |-> Cardinality(DOMAIN cache.cache \cup {key})
                                  - Cardinality(DOMAIN c.cache),
                    follows |-> Follows(last, key)]
        /\ accessLog' = Restrict(Touch(accessLog, key), DOMAIN c.cache)
        /\ UNCHANGED <<now, walkVars, lockVars, invoked>>

CLookup ==
    \E key \in CKeys :
        LET r == Lookup(cache, key, now) IN
        /\ cache' = r.c
        /\ last' = [op |-> "Lookup", key |-> key, msg |-> r.msg, ttl |-> 0,
                    age |-> r.age,
                    removed |-> Cardinality(DOMAIN cache.cache)
                                  - Cardinality(DOMAIN r.c.cache),
                    follows |-> Follows(last, key)]
        /\ accessLog' = Restrict(IF r.msg # NoMsg THEN Touch(accessLog, key)
                                 ELSE accessLog, DOMAIN r.c.cache)
        /\ UNCHANGED <<now, panicked, walkVars, lockVars, invoked>>

CClear ==
    /\ cache' = Clear(cache)
    /\ last' = [NoCall EXCEPT !.op = "Clear",
                               !.removed = Cardinality(DOMAIN cache.cache)]
    /\ accessLog' = <<>>
    /\ UNCHANGED <<now, panicked, walkVars>>
    /\ UNCHANGED <<lockVars, invoked>>

Tick ==
    /\ now < MaxTime
    /\ now' = now + 1
    /\ last' = NoCall
    /\ UNCHANGED <<cache, accessLog, panicked, walkVars>>
    /\ UNCHANGED <<lockVars, invoked>>

----------------------------------------------------------------------------
(* Helpers over messages (dns.go) *)

NoTtl == -1

emptyOnlyNil(m) == m = NoMsg

empty(m) == m = NoMsg \/ Len(m.Answer) + Len(m.Ns) + Len(m.Extra) = 0

isAuthoritative(m) == m # NoMsg /\ m.Authoritative

rrValue(rr) == rr.Data

copyRecordKeepsTtl(rr, ttl, newName) ==
    [rr EXCEPT !.Name = IF newName # "" THEN newName ELSE @]

(* copyRecord inside normalize: a fresh record parsed from rr.String(),    *)
(* with the ttl lowered to *ttl and the owner replaced by newName.         *)
copyRecord(rr, ttl, newName) ==
    [rr EXCEPT !.Ttl = IF ttl # NoTtl /\ ttl < @ THEN ttl ELSE @,
               !.Name = IF newName # "" THEN newName ELSE @]

mappedNothing(all) == {}

mapped(all) ==
    {all[i].Data : i \in {j \in 1..Len(all) : all[j].Rrtype \in {"CNAME", "NS"}}}

(* findReplacements: `seen` is one map shared by the whole recursion, so   *)
(* the result carries the map as the callee left it.                       *)
RECURSIVE findReplacements(_, _, _, _)
RECURSIVE findReplacementsLoop(_, _, _, _, _, _)
findReplacements(all, name, ttl, seen) ==
    IF name \in seen
    THEN [rrs |-> <<>>, ttl |-> ttl, cycle |-> TRUE, seen |-> seen]
    ELSE findReplacementsLoop(all, 1, name, ttl, seen \cup {name}, <<>>)

findReplacementsLoop(all, i, name, ttl, seen, rrs) ==
    IF i > Len(all)
    THEN [rrs |-> rrs, ttl |-> ttl, cycle |-> FALSE, seen |-> seen]
    ELSE LET rr == all[i]
             ttl1 == IF rr.Ttl < ttl THEN rr.Ttl ELSE ttl
         IN IF rr.Name # name
            THEN findReplacementsLoop(all, i + 1, name, ttl, seen, rrs)
            ELSE IF rr.Rrtype = "CNAME"
            THEN LET sub == findReplacements(all, rr.Data, ttl1, seen) IN
                 IF sub.cycle
                 THEN [rrs |-> <<>>, ttl |-> ttl1, cycle |-> TRUE, seen |-> sub.seen]
                 ELSE findReplacementsLoop(all, i + 1, name, sub.ttl, sub.seen,
                          rrs \o (IF Len(sub.rrs) > 0 THEN sub.rrs ELSE <<rr>>))
            ELSE findReplacementsLoop(all, i + 1, name, ttl1, seen, Append(rrs, rr))

RECURSIVE copyAll(_, _, _)
copyAll(rrs, ttl, newName) ==
    IF rrs = <<>> THEN <<>>
    ELSE <<copyRecord(Head(rrs), ttl, newName)>> \o copyAll(Tail(rrs), ttl, newName)

RECURSIVE normalizeLoopKeepsCycles(_, _, _)
normalizeLoopKeepsCycles(all, top, xs) ==
    IF top = <<>> THEN xs
    ELSE LET rr == Head(top) IN
         IF rr.Name \in mapped(all)
         THEN normalizeLoopKeepsCycles(all, Tail(top), xs)
         ELSE IF rr.Rrtype \notin {"NS", "CNAME"}
         THEN normalizeLoopKeepsCycles(all, Tail(top), Append(xs, copyRecord(rr, NoTtl, "")))
         ELSE LET f == findReplacements(all, rr.Data, rr.Ttl, {}) IN
              IF Len(f.rrs) = 0
              THEN normalizeLoopKeepsCycles(all, Tail(top), Append(xs, copyRecord(rr, NoTtl, "")))
              ELSE normalizeLoopKeepsCycles(all, Tail(top), xs \o copyAll(f.rrs, f.ttl, rr.Name))

(* the loop of normalize over Answer ++ Ns *)
RECURSIVE normalizeLoop(_, _, _)
normalizeLoop(all, top, xs) ==
    IF top = <<>> THEN xs
    ELSE LET rr == Head(top) IN
         IF rr.Name \in mapped(all)
         THEN normalizeLoop(all, Tail(top), xs)
         ELSE IF rr.Rrtype \notin {"NS", "CNAME"}
         THEN normalizeLoop(all, Tail(top), Append(xs, copyRecord(rr, NoTtl, "")))
         ELSE LET f == findReplacements(all, rr.Data, rr.Ttl, {}) IN
              IF f.cycle
              THEN normalizeLoop(all, Tail(top), xs)
              ELSE IF Len(f.rrs) = 0
              THEN normalizeLoop(all, Tail(top), Append(xs, copyRecord(rr, NoTtl, "")))
              ELSE normalizeLoop(all, Tail(top), xs \o copyAll(f.rrs, f.ttl, rr.Name))

(* dns.Dedup(xs, nil) with its result discarded: the records are compared  *)
(* without their ttl, the first of each group takes the group's smallest   *)
(* ttl, the distinct records are moved to the front of xs, and xs keeps    *)
(* its length.                                                             *)
dedupKey(rr) == <<rr.Name, rr.Rrtype, rr.Data>>

isFirst(xs, i) == \A j \in 1..(i - 1) : dedupKey(xs[j]) # dedupKey(xs[i])

groupMinTtl(xs, i) ==
    LET ttls == {xs[j].Ttl : j \in {k \in 1..Len(xs) : dedupKey(xs[k]) = dedupKey(xs[i])}}
    IN CHOOSE t \in ttls : \A u \in ttls : t <= u

RECURSIVE firsts(_, _)
firsts(xs, i) ==
    IF i > Len(xs) THEN <<>>
    ELSE (IF isFirst(xs, i) THEN <<xs[i]>> ELSE <<>>) \o firsts(xs, i + 1)

Dedup(xs) ==
    LET lowered == [i \in 1..Len(xs) |->
                       IF isFirst(xs, i)
                       THEN [xs[i] EXCEPT !.Ttl = groupMinTtl(xs, i)]
                       ELSE xs[i]]
        front == firsts(lowered, 1)
    IN IF Len(front) = Len(xs) THEN xs
       ELSE front \o SubSeq(lowered, Len(front) + 1, Len(xs))

(* (a value bound by a set constructor, as xs here, is computed once) *)
normalize(m) ==
    IF m = NoMsg THEN <<>>
    ELSE CHOOSE v \in
            {Dedup(xs) : xs \in {normalizeLoop(m.Answer \o m.Ns \o m.Extra,
                                               m.Answer \o m.Ns, <<>>)}} : TRUE

----------------------------------------------------------------------------
(* Addresses, questions and errors of the walk *)

V4Addrs == {"127.0.0.250", "127.0.0.251", "127.0.0.101", "127.0.0.102"}
V6Addrs == {"2001:db8::1"}

(* Texts that are not IP addresses, and the ports that are written *)
HostNames == {"localhost"}
Ports == {"", "53", "5353"}

DefaultPort == "53"

(* net.ParseIP(s) # nil *)
ParseIP(s) == s \in V4Addrs \cup V6Addrs

(* net.JoinHostPort: a host with a colon in it is put in brackets *)
JoinHostPort(host, port) ==
    IF host \in V6Addrs THEN "[" \o host \o "]:" \o port
    ELSE host \o ":" \o port

(* the texts of the form "host:port" and "[host]:port", each with its     *)
(* host and port                                                           *)
SplitTable ==
    LET parts == {[host |-> h, port |-> p, err |-> FALSE] :
                     h \in V4Addrs \cup V6Addrs \cup HostNames, p \in Ports}
    IN [hostport \in {JoinHostPort(s.host, s.port) : s \in parts} |->
           CHOOSE s \in parts : JoinHostPort(s.host, s.port) = hostport]

(* net.SplitHostPort: the host and the port of "host:port" or             *)
(* "[host]:port"; any other text (no port, too many colons) is an error    *)
SplitHostPort(hostport) ==
    IF hostport \in DOMAIN SplitTable THEN SplitTable[hostport]
    ELSE [host |-> "", port |-> "", err |-> TRUE]

(* the host of an address as the walk reads it: host, _, err :=            *)
(* net.SplitHostPort(addr); if err != nil { host = addr }                  *)
HostOf(addr) ==
    LET s == SplitHostPort(addr) IN IF s.err THEN addr ELSE s.host

(* the label retry of the walk: an address without a port gets the         *)
(* default port                                                            *)
Endpoint(addr) ==
    IF SplitHostPort(addr).err THEN JoinHostPort(addr, DefaultPort) ELSE addr

(* ip.To4() != nil for the host of addr *)
IsIPv4(addr) == HostOf(addr) \in V4Addrs

Question(name, qtype) == [Name |-> name, Qtype |-> qtype]

RootQuestion == Question(".", "NS")

NoErr == "nil"
ErrCircular == "circular reference"
ErrNXDomain == "NXDOMAIN response"
Canceled == "context canceled"
DeadlineExceeded == "context deadline exceeded"
ENETUNREACH == "network is unreachable"
ErrTransport == "i/o error"
ErrIPv4Disabled == "IPv4 disabled"
ErrNotIPPort == "not an ip:port pair"
ErrIPv6Disabled == "IPv6 disabled"

(* The error returned by Query: its text up to the first wrapped error,    *)
(* the record type and domain name a "{rtype} {domain}: ..." text carries, *)
(* and the error that errors.Is finds by unwrapping (NoErr if none).       *)
QueryError(text, cause) == [text |-> text, rtype |-> "", name |-> "", cause |-> cause]

NoQueryError == QueryError("", NoErr)

(* fmt.Errorf("%s %s: %w", rs.Type, rs.Name, err) *)
LookupError(rs, cause) ==
    [text |-> "{rtype} {domain}: ", rtype |-> rs.Type, name |-> rs.Name, cause |-> cause]

isTerminalWithoutCircular(resp, err) == err \in {Canceled, DeadlineExceeded}

isTerminalAnyError(resp, err) == err # NoErr

isTerminal(resp, err) == err \in {ErrCircular, Canceled, DeadlineExceeded}

----------------------------------------------------------------------------
(* Trace: the nodes in the order they were added, each with the index of   *)
(* its parent node (0 for an element of Trace.Queries), and the stack of   *)
(* parent nodes.                                                           *)

EmptyTrace == [nodes |-> <<>>, stack |-> <<>>]

TraceNode(q, addr, msg, age, err, parent) ==
    [Server |-> addr, q |-> q, Message |-> msg, Age |-> age, Error |-> err,
     parent |-> parent]

TraceParent(t) == IF t.stack = <<>> THEN 0 ELSE t.stack[Len(t.stack)]

TraceChildren(t, p) == {i \in 1..Len(t.nodes) : t.nodes[i].parent = p}

TraceLast(t, p) ==
    IF TraceChildren(t, p) = {} THEN 0
    ELSE CHOOSE i \in TraceChildren(t, p) : \A j \in TraceChildren(t, p) : j <= i

TracePush(t) == [t EXCEPT !.stack = Append(@, TraceLast(t, TraceParent(t)))]

TracePopForgotten(t) == t

TracePop(t) ==
    IF Len(t.stack) > 0 THEN [t EXCEPT !.stack = SubSeq(@, 1, Len(@) - 1)] ELSE t

TraceAddDropsNode(t, q, addr, msg, age, err) == t

TraceAdd(t, q, addr, msg, age, err) ==
    [t EXCEPT !.nodes =
        Append(@, TraceNode(q, addr, msg, age, err, TraceParent(t)))]

TraceContains(t, q, addr) ==
    \E i \in 1..Len(t.nodes) : t.nodes[i].q = q /\ t.nodes[i].Server = addr

----------------------------------------------------------------------------
(* RecordSet and the cache policies *)

NewRecordSet(name, type, q) ==
    [Name |-> name, Type |-> type, TTL |-> 0, Values |-> <<>>,
     ServerAddr |-> "", Age |-> -1, Raw |-> NoMsg, Question |-> q]

RECURSIVE fromResponseLoop(_, _, _, _, _)
fromResponseLoop(rs, rrs, first, ignoreName, qname) ==
    IF rrs = <<>> THEN rs
    ELSE LET rr == Head(rrs) IN
         IF ~ignoreName /\ rr.Name # qname
         THEN fromResponseLoop(rs, Tail(rrs), first, ignoreName, qname)
         ELSE fromResponseLoop(
                  [rs EXCEPT !.TTL = IF first \/ rr.Ttl < @ THEN rr.Ttl ELSE @,
                             !.Values = Append(@, rrValue(rr))],
                  Tail(rrs), FALSE, ignoreName, qname)

fromResponse(rs, resp, addr, age, ignoreName) ==
    CHOOSE v \in
        {fromResponseLoop(
             [rs EXCEPT !.Raw = IF resp # NoMsg THEN resp ELSE @,
                        !.ServerAddr = addr, !.Age = age],
             rrs, TRUE, ignoreName, rs.Question.Name) : rrs \in {normalize(resp)}} : TRUE

PublicSuffixes == {".", "com.", "uk.", "co.uk."}

isPublicSuffix(fqdn) == fqdn \in PublicSuffixes

RECURSIVE defaultCachePolicyLoop(_, _, _)
defaultCachePolicyLoop(rrs, i, ttl) ==
    IF i > Len(rrs) THEN ttl
    ELSE IF rrs[i].Rrtype # "NS" THEN 0
    ELSE IF ~isPublicSuffix(rrs[i].Name) THEN 0
    ELSE defaultCachePolicyLoop(rrs, i + 1,
             IF i = 1 \/ rrs[i].Ttl < ttl THEN rrs[i].Ttl ELSE ttl)

defaultCachePolicyAnyType(rs) ==
    LET rrs == rs.Raw.Answer \o rs.Raw.Ns IN
    IF rrs = <<>> \/ \E i \in 1..Len(rrs) : ~isPublicSuffix(rrs[i].Name) THEN 0
    ELSE CHOOSE x \in {rrs[i].Ttl : i \in 1..Len(rrs)} :
            \A i \in 1..Len(rrs) : x <= rrs[i].Ttl

defaultCachePolicy(rs) == defaultCachePolicyLoop(rs.Raw.Answer \o rs.Raw.Ns, 1, 0)

NegativeTTL == 60

ObeyResponderAdvice(negativeTTL, rs) ==
    IF rs.Type = "NXDOMAIN" THEN negativeTTL ELSE rs.TTL

CachePolicy(policy, rs) ==
    IF policy = "default" THEN defaultCachePolicy(rs)
    ELSE ObeyResponderAdvice(NegativeTTL, rs)

----------------------------------------------------------------------------
(* resolver.referrals and resolver.doQuery *)

RECURSIVE referralsLoop(_, _, _)
referralsLoop(rv, rrs, acc) ==
    IF rrs = <<>> THEN acc
    ELSE LET rr == Head(rrs) IN
         referralsLoop(rv, Tail(rrs),
             CASE rr.Rrtype = "A" ->
                    IF ~rv.ip4disabled THEN [acc EXCEPT !.ips = Append(@, rr.Data)] ELSE acc
               [] rr.Rrtype = "AAAA" ->
                    IF ~rv.ip6disabled THEN [acc EXCEPT !.ips = Append(@, rr.Data)] ELSE acc
               [] rr.Rrtype \in {"NS", "CNAME"} ->
                    [acc EXCEPT !.names = Append(@, rr.Data)]
               [] OTHER -> acc)

referrals(rv, m) ==
    CHOOSE v \in
        {referralsLoop(rv, rrs, [ips |-> <<>>, names |-> <<>>]) : rrs \in {normalize(m)}} : TRUE

(* What the network does with one exchange: a response or an error *)
Response(m) == [resp |-> m, err |-> NoErr]
Failure(e) == [resp |-> NoMsg, err |-> e]

(* m := new(dns.Msg) with the question: no records, no flags that the walk  *)
(* reads                                                                    *)
NewQuery == Msg("NOERROR", FALSE, <<>>, <<>>, <<>>)

(* tn.Message: m, and the response when there is one *)
tnMessage(resp) == IF resp # NoMsg THEN resp ELSE NewQuery

afterLookupIgnoresHit(rv, tr, q, addr, t, outcome, l) ==
    LET hit  == FALSE
        resp == IF hit THEN l.msg ELSE outcome.resp
        err  == IF hit THEN NoErr ELSE outcome.err
        age0 == IF hit THEN l.age ELSE -1
        rs   == fromResponse(
                    NewRecordSet(q.Name, q.Qtype, q), resp, addr, age0, TRUE)
    IN CHOOSE v \in
          {[resp |-> resp, age |-> IF ttl > 0 THEN 0 ELSE age0, err |-> err,
            cache |-> IF ttl > 0 THEN Update(l.c, <<q, addr>>, resp, ttl, t) ELSE l.c,
            trace |-> TraceAdd(tr, q, addr, tnMessage(resp),
                               IF ttl > 0 THEN 0 ELSE age0, err),
            sent |-> ~hit, consulted |-> resp # NoMsg /\ age0 < 0] :
           ttl \in {IF resp # NoMsg /\ age0 < 0
                    THEN CachePolicy(rv.CachePolicy, rs) ELSE 0}} : TRUE

afterLookupPolicyOnHit(rv, tr, q, addr, t, outcome, l) ==
    LET hit  == l.msg # NoMsg
        resp == IF hit THEN l.msg ELSE outcome.resp
        err  == IF hit THEN NoErr ELSE outcome.err
        age0 == IF hit THEN l.age ELSE -1
        rs   == fromResponse(
                    NewRecordSet(q.Name, q.Qtype, q), resp, addr, age0, TRUE)
    IN CHOOSE v \in
          {[resp |-> resp, age |-> IF ttl > 0 THEN 0 ELSE age0, err |-> err,
            cache |-> IF ttl > 0 THEN Update(l.c, <<q, addr>>, resp, ttl, t) ELSE l.c,
            trace |-> TraceAdd(tr, q, addr, tnMessage(resp),
                               IF ttl > 0 THEN 0 ELSE age0, err),
            sent |-> ~hit, consulted |-> resp # NoMsg] :
           ttl \in {IF resp # NoMsg
                    THEN CachePolicy(rv.CachePolicy, rs) ELSE 0}} : TRUE

afterLookupKeepsAge(rv, tr, q, addr, t, outcome, l) ==
    LET hit  == l.msg # NoMsg
        resp == IF hit THEN l.msg ELSE outcome.resp
        err  == IF hit THEN NoErr ELSE outcome.err
        age0 == IF hit THEN l.age ELSE -1
        rs   == fromResponse(
                    NewRecordSet(q.Name, q.Qtype, q), resp, addr, age0, TRUE)
    IN CHOOSE v \in
          {[resp |-> resp, age |-> age0, err |-> err,
            cache |-> IF ttl > 0 THEN Update(l.c, <<q, addr>>, resp, ttl, t) ELSE l.c,
            trace |-> TraceAdd(tr, q, addr, tnMessage(resp),
                               IF ttl > 0 THEN 0 ELSE age0, err),
            sent |-> ~hit, consulted |-> resp # NoMsg /\ age0 < 0] :
           ttl \in {IF resp # NoMsg /\ age0 < 0
                    THEN CachePolicy(rv.CachePolicy, rs) ELSE 0}} : TRUE

(* doQuery from the return of r.cache.Lookup(q, addr), which is l *)
afterLookup(rv, tr, q, addr, t, outcome, l) ==
    LET hit  == l.msg # NoMsg
        resp == IF hit THEN l.msg ELSE outcome.resp
        err  == IF hit THEN NoErr ELSE outcome.err
        age0 == IF hit THEN l.age ELSE -1
        rs   == fromResponse(
                    NewRecordSet(q.Name, q.Qtype, q), resp, addr, age0, TRUE)
    IN CHOOSE v \in
          {[resp |-> resp, age |-> IF ttl > 0 THEN 0 ELSE age0, err |-> err,
            cache |-> IF ttl > 0 THEN Update(l.c, <<q, addr>>, resp, ttl, t) ELSE l.c,
            trace |-> TraceAdd(tr, q, addr, tnMessage(resp),
                               IF ttl > 0 THEN 0 ELSE age0, err),
            sent |-> ~hit, consulted |-> resp # NoMsg /\ age0 < 0] :
           ttl \in {IF resp # NoMsg /\ age0 < 0
                    THEN CachePolicy(rv.CachePolicy, rs) ELSE 0}} : TRUE

doQueryIgnoresDisabled(rv, c, tr, q, addr, t, outcome) ==
    IF TraceContains(tr, q, addr)
    THEN [resp |-> NoMsg, age |-> -1, err |-> ErrCircular, cache |-> c,
          trace |-> TraceAdd(tr, q, addr, NewQuery, 0, ErrCircular),
          sent |-> FALSE,
          consulted |-> FALSE]
    ELSE IF SplitHostPort(addr).err \/ ~ParseIP(SplitHostPort(addr).host)
    THEN [resp |-> NoMsg, age |-> -1, err |-> ErrNotIPPort, cache |-> c,
          trace |-> TraceAdd(tr, q, addr, NewQuery, 0, ErrNotIPPort),
          sent |-> FALSE,
          consulted |-> FALSE]
    ELSE CHOOSE v \in {afterLookup(rv, tr, q, addr, t, outcome, l) :
                          l \in {Lookup(c, <<q, addr>>, t)}} : TRUE

(* doQuery(q, addr) of the resolver snapshot rv on cache c and trace tr at *)
(* time t; `outcome` is what the network does if the query is sent.        *)
(* The result carries the new cache and trace, and `sent` tells whether    *)
(* the query went on the wire.                                             *)
doQuery(rv, c, tr, q, addr, t, outcome) ==
    IF TraceContains(tr, q, addr)
    THEN [resp |-> NoMsg, age |-> -1, err |-> ErrCircular, cache |-> c,
          trace |-> TraceAdd(tr, q, addr, NewQuery, 0, ErrCircular),
          sent |-> FALSE,
          consulted |-> FALSE]
    ELSE IF SplitHostPort(addr).err \/ ~ParseIP(SplitHostPort(addr).host)
    THEN [resp |-> NoMsg, age |-> -1, err |-> ErrNotIPPort, cache |-> c,
          trace |-> TraceAdd(tr, q, addr, NewQuery, 0, ErrNotIPPort),
          sent |-> FALSE,
          consulted |-> FALSE]
    ELSE IF IsIPv4(addr) /\ rv.ip4disabled
    THEN [resp |-> NoMsg, age |-> -1, err |-> ErrIPv4Disabled, cache |-> c,
          trace |-> TraceAdd(tr, q, addr, NewQuery, 0, ErrIPv4Disabled),
          sent |-> FALSE,
          consulted |-> FALSE]
    ELSE IF ~IsIPv4(addr) /\ rv.ip6disabled
    THEN [resp |-> NoMsg, age |-> -1, err |-> ErrIPv6Disabled, cache |-> c,
          trace |-> TraceAdd(tr, q, addr, NewQuery, 0, ErrIPv6Disabled),
          sent |-> FALSE,
          consulted |-> FALSE]
    ELSE CHOOSE v \in {afterLookup(rv, tr, q, addr, t, outcome, l) :
                          l \in {Lookup(c, <<q, addr>>, t)}} : TRUE

----------------------------------------------------------------------------
(* The name servers.  The replies are built as the handlers of the test    *)
(* servers build them (delegationHandler.ServeDNS, serveHandler.ServeDNS,  *)
(* NewRootServer); which reply a server gives to a question is chosen by   *)
(* the environment from Replies, once per (question, server).              *)

RootIP == "127.0.0.250"
Root2IP == "127.0.0.251"
Ns1IP == "127.0.0.101"
Ns2IP == "127.0.0.102"
Ns1Name == "ns1.test."
Ns2Name == "ns2.test."
Domain == "example.com."
Value == "192.0.2.1"

RECURSIVE delegationAnswer(_, _, _)
delegationAnswer(zone, upstreamAddrs, i) ==
    IF i > Len(upstreamAddrs) THEN <<>>
    ELSE <<RR(zone, "NS", 1,
              IF ParseIP(upstreamAddrs[i])
              THEN (IF i = 1 THEN Ns1Name ELSE Ns2Name)
              ELSE upstreamAddrs[i])>>
         \o delegationAnswer(zone, upstreamAddrs, i + 1)

RECURSIVE delegationExtra(_, _)
delegationExtra(upstreamAddrs, i) ==
    IF i > Len(upstreamAddrs) THEN <<>>
    ELSE (IF ParseIP(upstreamAddrs[i])
          THEN <<RR(IF i = 1 THEN Ns1Name ELSE Ns2Name, "A", 1, upstreamAddrs[i])>>
          ELSE <<>>)
         \o delegationExtra(upstreamAddrs, i + 1)

(* ExpectQuery(..).DelegateTo(zone, addr...): the message that the handler *)
(* writes.  For an address that is not IPv4 the helper A stops the test    *)
(* ("invalid ipv4") and nothing is written.                                *)
DelegateTo(zone, upstreamAddrs) ==
    IF \E i \in 1..Len(upstreamAddrs) :
          ParseIP(upstreamAddrs[i]) /\ upstreamAddrs[i] \notin V4Addrs
    THEN NoMsg
    ELSE Msg("NOERROR", FALSE, delegationAnswer(zone, upstreamAddrs, 1), <<>>,
             delegationExtra(upstreamAddrs, 1))

(* ExpectQuery(..).Respond().Status(code).Answer(rrs...) *)
Respond(code, answer) == Msg(code, TRUE, answer, <<>>, <<>>)

(* ExpectQuery(..).Respond().Status(code).Authority(rrs...) *)
RespondAuthority(code, authority) == Msg(code, TRUE, <<>>, authority, <<>>)

(* a name error of the zone test., with the zone's SOA record *)
NameError == RespondAuthority("NXDOMAIN", <<RR("test.", "SOA", 1, "self.test.")>>)

(* The "NS ." expectation of NewRootServer, for a root zone served at ips *)
RECURSIVE rootGlue(_)
rootGlue(ips) ==
    IF ips = <<>> THEN <<>>
    ELSE <<RR("self.test.", "A", 1, Head(ips))>> \o rootGlue(Tail(ips))

RootServer(ips) ==
    Msg("NOERROR", TRUE, <<RR(".", "NS", 1, "self.test.")>>, <<>>, rootGlue(ips))

CNAME(name, target) == RR(name, "CNAME", 1, target)

Www == "www.example.com."
Foo == "foo.example.com."
Value0 == "192.0.2.0"
Value6 == "2001:db8::"

(* ExpectQuery(..).Respond().Answer(rrs...).Additional(rrs...) *)
RespondAdditional(answer, additional) == Msg("NOERROR", TRUE, answer, <<>>, additional)

(* the answer of TestResolver_Query_CNAMEResolution, with two addresses *)
(* that live longer than the alias                                      *)
AliasAnswer ==
    RespondAdditional(<<CNAME(Domain, Www)>>,
                      <<RR(Www, "A", 2, Value), RR(Www, "A", 3, Value0)>>)

(* the inconsistent record set of the comment of Resolver.Query *)
InconsistentAnswer ==
    Respond("NOERROR", <<RR(Domain, "A", 3, Value0), RR(Domain, "A", 2, Value),
                         RR(Foo, "A", 1, Value), RR(Domain, "AAAA", 1, Value6)>>)

(* a delegation as a name server of the network sends it, to one name     *)
(* server with an IPv4 address and one with an IPv6 address: what          *)
(* ExchangeContext can return and resolver.referrals reads.  The handlers  *)
(* of the test server build no such message: delegationHandler.ServeDNS    *)
(* makes A records only, and serveHandler.ServeDNS sets the AA flag.       *)
Ns6IP == "2001:db8::1"

MixedDelegation ==
    Msg("NOERROR", FALSE,
        <<RR("com.", "NS", 1, Ns1Name), RR("com.", "NS", 1, Ns2Name)>>, <<>>,
        <<RR(Ns1Name, "A", 1, Ns1IP), RR(Ns2Name, "AAAA", 1, Ns6IP)>>)

(* an answer in which the server repeats a record, the second time with a  *)
(* shorter ttl, before another address                                     *)
RepeatedAnswer ==
    Respond("NOERROR", <<RR(Domain, "A", 2, Value), RR(Domain, "A", 1, Value),
                         RR(Domain, "A", 3, Value0)>>)

(* the circular_cname case of TestResolver_RecordSet_fromResult *)
CircularAnswer ==
    Respond("NOERROR", <<CNAME(Domain, Www), CNAME(Www, Domain)>>)

(* the endpoint of the server with address ip *)
At(ip) == JoinHostPort(ip, DefaultPort)

(* the reply of TestServer.ServeDNS to a query for which no expectation is *)
(* left: m.SetRcode(r, dns.RcodeNotImplemented)                            *)
Unexpected == Response(Msg("NOTIMP", FALSE, <<>>, <<>>, <<>>))

Replies(q, addr) ==
    CASE q = RootQuestion /\ addr = At(RootIP) ->
           {Response(RootServer(<<RootIP>>)),
            Response(RootServer(<<RootIP, Root2IP>>)),
            Failure(ErrTransport), Failure(DeadlineExceeded),
            Failure(ENETUNREACH)}
      [] q = RootQuestion /\ addr = At(Root2IP) ->
           {Response(RootServer(<<RootIP>>)), Response(Respond("NOERROR", <<>>))}
      [] q = Question(Domain, "A") /\ addr = At(RootIP) ->
           {Response(DelegateTo("com.", <<Ns1IP, Ns2IP>>)),
            Response(DelegateTo("com.", <<Ns1Name, Ns2Name>>)),
            Response(MixedDelegation)}
      [] q = Question(Domain, "A") /\ addr = At(Ns1IP) ->
           {Response(Respond("NOERROR", <<RR(Domain, "A", 1, Value)>>)),
            Response(Respond("SERVFAIL", <<>>)),
            Response(Respond("NXDOMAIN", <<>>)),
            Response(DelegateTo(Domain, <<Ns1IP>>)),
            Failure(ErrTransport), Failure(ENETUNREACH), Failure(Canceled)}
      [] q = Question(Domain, "A") /\ addr = At(Ns2IP) ->
           {Response(Respond("NOERROR", <<RR(Domain, "A", 1, Value)>>)),
            Response(Respond("SERVFAIL", <<>>))}
      [] q = Question(Domain, "A") /\ addr = At(Ns6IP) ->
           {Response(AliasAnswer), Response(InconsistentAnswer),
            Response(RepeatedAnswer), Response(CircularAnswer),
            Response(DelegateTo(Domain, <<Ns2IP>>))}
      [] q = Question(Ns1Name, "AAAA") /\ addr = At(RootIP) ->
           {Response(Respond("SERVFAIL", <<>>)),
            Response(Respond("NOERROR", <<CNAME(Ns1Name, Ns2Name)>>)),
            Response(NameError), Failure(ENETUNREACH)}
      [] q = Question(Ns1Name, "A") /\ addr = At(RootIP) ->
           {Response(Respond("NOERROR", <<RR(Ns1Name, "A", 1, Ns1IP)>>)),
            Response(Respond("NOERROR", <<CNAME(Ns1Name, Ns2Name)>>)),
            Response(Respond("SERVFAIL", <<>>))}
      [] q = Question(Ns2Name, "AAAA") /\ addr = At(RootIP) ->
           {Response(Respond("SERVFAIL", <<>>)),
            Response(Respond("NOERROR", <<CNAME(Ns2Name, Ns1Name)>>))}
      [] q = Question(Ns2Name, "A") /\ addr = At(RootIP) ->
           {Response(Respond("NOERROR", <<RR(Ns2Name, "A", 1, Ns2IP)>>)),
            Response(Respond("NOERROR", <<CNAME(Ns2Name, Ns1Name)>>)),
            Response(Respond("SERVFAIL", <<>>)),
            Response(Respond("NOERROR", <<>>))}
      [] OTHER -> {Unexpected}

----------------------------------------------------------------------------
(* Resolver.Query and resolver.Query *)

DefaultCacheSize == 10000

Frame(q, altNames, addrs) == [q |-> q, altNames |-> altNames, addrs |-> addrs]

Top(st) == st[Len(st)]
Pop(st) == SubSeq(st, 1, Len(st) - 1)
SetTop(st, f) == [st EXCEPT ![Len(st)] = f]

NoEx == [q |-> Question("", ""), addr |-> "", sent |-> FALSE, err |-> NoErr,
         rcode |-> "", depth |-> 0, rest |-> <<>>, consulted |-> FALSE,
         age |-> -1]

(* what a doQuery call did, for the history variable lastEx *)
Ex(q, a, d, depth, rest) ==
    [q |-> q, addr |-> a, sent |-> d.sent, err |-> d.err,
     rcode |-> IF d.resp = NoMsg THEN "" ELSE d.resp.Rcode,
     depth |-> depth, rest |-> rest, consulted |-> d.consulted, age |-> d.age]

NoPrev == [valid |-> FALSE, q |-> Question("", ""), failed |-> FALSE,
           served |-> FALSE, Values |-> <<>>]

(* The outcome of the call of Query that has just returned, noted when    *)
(* the next call starts at time t: its question, whether it failed, and    *)
(* whether it can be served again: it returned values, every response of   *)
(* its walk was put into or taken from the cache, and each of them is in   *)
(* the cache at t, its time to live not over.  The values are noted for a  *)
(* call that can be served again.                                          *)
Outcome(t) ==
    LET admitted == \A i \in 1..Len(trace.nodes) :
                       trace.nodes[i].Age >= 0 /\ trace.nodes[i].Error = NoErr
        alive == \A i \in 1..Len(trace.nodes) :
                    LET key == <<trace.nodes[i].q, trace.nodes[i].Server>> IN
                    /\ key \in DOMAIN cache.cache
                    /\ cache.cache[key].addedAt + cache.cache[key].ttl >= t
        served == qerr = NoQueryError /\ admitted /\ alive
    IN [valid |-> TRUE, q |-> rset.Question, failed |-> qerr # NoQueryError,
        served |-> served, Values |-> IF served THEN rset.Values ELSE <<>>]

(* an exchange that does not reach the server *)
Unreached(q, a) == {o \in Replies(q, a) : o.err # NoErr}

(* What the exchange of q with the server at a can bring.  The server      *)
(* hands out each expectation once: the first query gets an expectation    *)
(* of Replies, a later one gets the next expectation, which may be any of  *)
(* Replies again, or NOTIMP when none is left, and from then on NOTIMP.    *)
(* net tells for the questions a server has been asked whether it has run  *)
(* out of expectations.                                                    *)
Outcomes(q, a) ==
    IF <<q, a>> \notin DOMAIN net THEN Replies(q, a)
    ELSE IF net[<<q, a>>] THEN Unreached(q, a) \cup {Unexpected}
    ELSE Replies(q, a) \cup {Unexpected}

(* ts.handlers[pattern] = hs[1:]: a query that has reached the server has  *)
(* used up the expectation o                                               *)
Remember(q, a, d, o) ==
    IF d.sent /\ o.err = NoErr THEN MapPut(net, <<q, a>>, o = Unexpected)
    ELSE net

NoThread == "nobody"

(* Resolver.normalizeAddrs: the loop over addrs from index i on, with the  *)
(* addresses accepted so far (the keys of the map `seen`, in order)       *)
RECURSIVE normalizeAddrsLoop(_, _, _)
normalizeAddrsLoop(addrs, i, validDistinctAddrs) ==
    IF i > Len(addrs) THEN [addrs |-> validDistinctAddrs, err |-> NoErr]
    ELSE LET s    == SplitHostPort(addrs[i])
             ip   == IF s.err THEN addrs[i] ELSE s.host
             port == IF s.port = "" THEN DefaultPort ELSE s.port
             addr == JoinHostPort(ip, port)
         IN IF ~ParseIP(ip)
            THEN [addrs |-> <<>>, err |-> "not an ip address: " \o addrs[i]]
            ELSE IF \E k \in 1..Len(validDistinctAddrs) :
                       validDistinctAddrs[k] = addr
            THEN normalizeAddrsLoop(addrs, i + 1, validDistinctAddrs)
            ELSE normalizeAddrsLoop(addrs, i + 1,
                                    Append(validDistinctAddrs, addr))

normalizeAddrsKeepsDuplicates(addrs) ==
    IF \E i \in 1..Len(addrs) : ~ParseIP(HostOf(addrs[i]))
    THEN [addrs |-> <<>>, err |-> "not an ip address"]
    ELSE [addrs |-> [i \in 1..Len(addrs) |-> Endpoint(addrs[i])], err |-> NoErr]

normalizeAddrs(addrs) == normalizeAddrsLoop(addrs, 1, <<>>)

(* /etc/resolv.conf as dns.ClientConfigFromFile reads it: the name servers *)
(* in the order of the file, or the error of reading the file.  A file may *)
(* name a server more than once, and may name none.                        *)
ResolvConf ==
    {[Servers |-> <<>>, err |-> "open /etc/resolv.conf: no such file or directory"],
     [Servers |-> <<>>, err |-> NoErr],
     [Servers |-> <<RootIP, RootIP, RootIP, Root2IP>>, err |-> NoErr]}

(* Resolver.discoverSystemServers: every name server of the file, in the   *)
(* order of the file, with the default port                                *)
discoverSystemServers(config) ==
    IF config.err # NoErr THEN [addrs |-> <<>>, err |-> config.err]
    ELSE [addrs |-> [i \in 1..Len(config.Servers) |->
                        JoinHostPort(config.Servers[i], DefaultPort)],
          err |-> NoErr]

(* the addresses a program hands to SetBootstrapServers after New(): none, *)
(* or those of the two bootstrap servers                                   *)
Configured == {<<>>, <<RootIP, Root2IP>>}

(* no other thread is calling the Resolver *)
LocksFree ==
    /\ mu = NoThread
    /\ cmu = NoThread
    /\ thr = <<>>

NoCallMade == [op |-> "none"]

(* no call of Query yet *)
WalkIdle ==
    /\ pc = "idle"
    /\ resolver = [CachePolicy |-> "default", ip4disabled |-> FALSE,
                   ip6disabled |-> FALSE, systemServerAddrs |-> <<>>]
    /\ rset = NewRecordSet("", "", Question("", ""))
    /\ qerr = NoQueryError
    /\ stack = <<>>
    /\ trace = EmptyTrace
    /\ rootAddrs = <<>>
    /\ curAddr = ""
    /\ boot = [i |-> 1, err |-> NoErr]
    /\ net = [k \in {} |-> FALSE]
    /\ exchanged = FALSE
    /\ lastEx = NoEx
    /\ waiting = FALSE
    /\ prev = NoPrev
    /\ LocksFree
    /\ invoked = NoCallMade

(* New(), then SetBootstrapServers called with the addresses of the        *)
(* bootstrap servers, the exported field CachePolicy set to one of the     *)
(* policies and IPv6 on or off; or New() alone, as it returns the          *)
(* Resolver: systemServerAddrs is empty and the first call of Query fills  *)
(* it                                                                      *)
Init ==
    /\ cache = New(DefaultCacheSize)
    /\ now = 0
    /\ last = NoCall
    /\ accessLog = <<>>
    /\ panicked = FALSE
    /\ \E policy \in {"default", "obey"}, ip6 \in BOOLEAN,
          serverAddresses \in Configured :
          /\ serverAddresses = <<>> => policy = "default" /\ ~ip6
          /\ R = [CachePolicy |-> policy, ip4disabled |-> FALSE,
                  ip6disabled |-> ip6,
                  systemServerAddrs |-> normalizeAddrs(serverAddresses).addrs]
    /\ WalkIdle

(* The cache on its own: cache.New(n) and calls of its methods *)
CacheInit ==
    /\ \E n \in 0..MaxCap : cache = New(n)
    /\ now = 0
    /\ last = NoCall
    /\ accessLog = <<>>
    /\ panicked = FALSE
    /\ R = [CachePolicy |-> "default", ip4disabled |-> FALSE, ip6disabled |-> FALSE,
            systemServerAddrs |-> <<At(RootIP), At(Root2IP)>>]
    /\ WalkIdle

CacheNext == CUpdate \/ CLookup \/ CClear \/ Tick

CacheSpec == CacheInit /\ [][CacheNext]_vars

----------------------------------------------------------------------------
(* The walk of resolver.Query.  A call of doQuery that goes to the network *)
(* is two steps: SendQuery up to the call of ExchangeContext, with the     *)
(* lookup in the cache, and, after the wait, the step of the loop that     *)
(* takes the reply, updates the cache and runs the code of the loop up to  *)
(* the next call of doQuery or the return.  A call of doQuery that does    *)
(* not go to the network is part of the step of the loop.                  *)

Walk(p, rv, rsv, e, st, tr, a) ==
    [pc |-> p, resolver |-> rv, rset |-> rsv, qerr |-> e, stack |-> st,
     trace |-> tr, curAddr |-> a]

(* r := &resolver{...}; return r.Query(...): the walk runs on the value rv *)
(* made at the entry of the call, not on the shared Resolver Rv            *)
receiverShared(rv, Rv) ==
    [rv EXCEPT !.CachePolicy = Rv.CachePolicy,
               !.systemServerAddrs = Rv.systemServerAddrs]

receiver(rv, Rv) == rv

(* addrs, names := r.referrals(resp) and what follows, to the loop's end *)
Referred(st, rv, rsv, tr, a, resp) ==
    LET ref   == referrals(rv, resp)
        frame == Top(st)
    IN IF Len(ref.ips) > 0
       THEN Walk("loop", rv, rsv, NoQueryError,
                 SetTop(st, [frame EXCEPT !.addrs = ref.ips]), tr, a)
       ELSE IF Len(ref.names) > 0
       THEN Walk("loop", rv, rsv, NoQueryError,
                 Append(st, Frame(Question(ref.names[1],
                                           IF rv.ip6disabled THEN "A" ELSE "AAAA"),
                                  Tail(ref.names), rootAddrs)),
                 TracePush(tr), a)
       ELSE Walk("done", rv, rsv, QueryError("empty response", NoErr), st, tr, a)

AnsweredKeepsFrame(st, rv, rsv, tr, a, d) ==
    IF isAuthoritative(d.resp) /\ Len(st) = 1
    THEN Walk("done", rv, fromResponse(rsv, d.resp, a, d.age, FALSE),
              NoQueryError, Pop(st), TracePop(tr), a)
    ELSE Referred(st, rv, rsv, tr, a, d.resp)

(* a successful response: from isAuthoritative(resp) on *)
Answered(st, rv, rsv, tr, a, d) ==
    IF isAuthoritative(d.resp)
    THEN LET st2 == Pop(st)
             tr2 == TracePop(tr)
         IN IF Len(st2) = 0
            THEN Walk("done", rv, fromResponse(rsv, d.resp, a, d.age, FALSE),
                      NoQueryError, st2, tr2, a)
            ELSE Referred(st2, rv, rsv, tr2, a, d.resp)
    ELSE Referred(st, rv, rsv, tr, a, d.resp)

(* The loop body after resp, rtt, age, err = r.doQuery(ctx, frame.q, addr, *)
(* rs.Trace) returned d, for the stack st and the resolver value rv0.      *)
Body(st, rv0, rsv, a, d) ==
    LET frame == Top(st)
        tr    == d.trace
        rv    == IF d.err = ENETUNREACH
                 THEN IF IsIPv4(a) THEN [rv0 EXCEPT !.ip4disabled = TRUE]
                                   ELSE [rv0 EXCEPT !.ip6disabled = TRUE]
                 ELSE rv0
        continue == Walk("loop", rv, rsv, NoQueryError, st, tr, a)
    IN IF isTerminal(d.resp, d.err)
       THEN Walk("done", rv0, rsv, LookupError(rsv, d.err), st, tr, a)
       ELSE IF Len(st) > 1 /\ empty(d.resp)
               /\ frame.q.Qtype = "AAAA" /\ ~rv.ip4disabled
       THEN Walk("retry", rv, rsv, NoQueryError,
                 SetTop(st, [frame EXCEPT !.q.Qtype = "A"]), tr, a)
       ELSE IF Len(st) > 1 /\ empty(d.resp) /\ Len(frame.altNames) > 0
       THEN Walk("retry", rv, rsv, NoQueryError,
                 SetTop(st, [frame EXCEPT
                     !.q = Question(frame.altNames[1],
                                    IF ~rv.ip6disabled THEN "AAAA" ELSE frame.q.Qtype),
                     !.altNames = Tail(@),
                     !.addrs = Tail(rootAddrs)]),
                 tr, rootAddrs[1])
       ELSE IF d.err # NoErr THEN continue
       ELSE IF Len(st) = 0
       THEN CASE d.resp.Rcode = "NOERROR" -> Answered(st, rv, rsv, tr, a, d)
              [] d.resp.Rcode = "NXDOMAIN" ->
                   Walk("done", rv, rsv, LookupError(rsv, ErrNXDomain), st, tr, a)
              [] d.resp.Rcode = "SERVFAIL" -> continue
              [] OTHER ->
                   Walk("done", rv, rsv,
                        [LookupError(rsv, NoErr) EXCEPT
                            !.text = "{rtype} {domain}: {rcode}"], st, tr, a)
       ELSE IF d.resp.Rcode # "NOERROR" THEN continue
       ELSE Answered(st, rv, rsv, tr, a, d)

(* the assignment of a Walk record to the variables of the call *)
Becomes(w) ==
    /\ pc' = w.pc
    /\ resolver' = w.resolver
    /\ rset' = w.rset
    /\ qerr' = w.qerr
    /\ stack' = w.stack
    /\ trace' = w.trace
    /\ curAddr' = w.curAddr

----------------------------------------------------------------------------
(* Actions of the resolver *)

newResolverKeepsFlags(Rv, rv) ==
    [Rv EXCEPT !.ip4disabled = Rv.ip4disabled \/ rv.ip4disabled,
               !.ip6disabled = Rv.ip6disabled \/ rv.ip6disabled]

(* r := &resolver{...} in Resolver.Query: the value on which the call runs *)
(* is made new from the fields of the Resolver Rv; rv, the value on which  *)
(* the call before ran, is not read                                        *)
newResolver(Rv, rv) == Rv

(* Resolver.Query(ctx, "A", "example.com") up to the call of               *)
(* discoverRootServers; some time has passed since the previous call.      *)
(* With no bootstrap server known, the call reads them from the system     *)
(* and keeps them in the Resolver; when that fails the call returns the    *)
(* error.                                                                  *)
StartQuery ==
    /\ pc \in {"idle", "done"}
    /\ now < MaxTime
    /\ now' = now + 1
    /\ prev' = IF pc = "done" THEN Outcome(now + 1) ELSE NoPrev
    /\ \E found \in IF Len(R.systemServerAddrs) = 0
                     THEN {discoverSystemServers(config) : config \in ResolvConf}
                     ELSE {[addrs |-> R.systemServerAddrs, err |-> NoErr]} :
       LET Rv == [R EXCEPT !.systemServerAddrs = found.addrs]
       IN /\ R' = Rv
          /\ IF found.err # NoErr
             THEN /\ qerr' = QueryError("cannot determine system resolvers: ",
                                        found.err)
                  /\ pc' = "done"
                  /\ UNCHANGED resolver
             ELSE /\ resolver' = newResolver(Rv, resolver)
                  /\ qerr' = NoQueryError
                  /\ pc' = "bootstrap"
    /\ rset' = NewRecordSet(Domain, "A", Question(Domain, "A"))
    /\ stack' = <<>>
    /\ trace' = EmptyTrace
    /\ rootAddrs' = <<>>
    /\ curAddr' = ""
    /\ boot' = [i |-> 1, err |-> NoErr]
    /\ exchanged' = FALSE
    /\ lastEx' = NoEx
    /\ UNCHANGED <<cache, last, accessLog, panicked, net, waiting>>
    /\ UNCHANGED <<lockVars, invoked>>

(* Resolver.ClearCache() between two calls of Query *)
ClearCache ==
    /\ pc = "done"
    /\ cache.lru # <<>>
    /\ cache' = Clear(cache)
    /\ UNCHANGED <<now, last, accessLog, panicked, walkVars>>
    /\ UNCHANGED <<lockVars, invoked>>

(* the question and the address of the call of doQuery that the walk of    *)
(* rv makes next, if it makes one                                          *)
Pending(rv) ==
    IF pc = "bootstrap"
    THEN IF boot.i <= Len(rv.systemServerAddrs)
         THEN {[q |-> RootQuestion, addr |-> rv.systemServerAddrs[boot.i]]}
         ELSE {}
    ELSE IF pc = "loop"
    THEN IF Len(stack) > 0 /\ Len(Top(stack).addrs) > 0
         THEN {[q |-> Top(stack).q, addr |-> Endpoint(Head(Top(stack).addrs))]}
         ELSE {}
    ELSE IF pc = "retry"
    THEN {[q |-> Top(stack).q, addr |-> Endpoint(curAddr)]}
    ELSE {}

(* doQuery up to the call of ExchangeContext: the address has passed the   *)
(* checks, r.cache.Lookup has returned nothing and has released the lock   *)
(* of the cache, the query is on its way                                   *)
SendQuery ==
    /\ ~waiting
    /\ \E rv \in {receiver(resolver, R)} :
       \E n \in Pending(rv) :
          /\ doQuery(rv, cache, trace, n.q, n.addr, now, Failure(NoErr)).sent
          /\ cache' = Lookup(cache, <<n.q, n.addr>>, now).c
    /\ waiting' = TRUE
    /\ UNCHANGED <<now, last, accessLog, panicked, R, pc, resolver, rset, qerr,
                   stack, trace, rootAddrs, curAddr, boot, net, exchanged,
                   lastEx, prev>>
    /\ UNCHANGED <<lockVars, invoked>>

(* The clock goes on while the call waits for the reply *)
Wait ==
    /\ waiting
    /\ now < MaxTime
    /\ now' = now + 1
    /\ UNCHANGED <<cache, last, accessLog, panicked, walkVars>>
    /\ UNCHANGED <<lockVars, invoked>>

(* What a call of doQuery(q, a) returns in this step: without an exchange, *)
(* what the checks or the cache give; after the wait in ExchangeContext,   *)
(* what doQuery makes of the reply o, on the cache and at the time of the  *)
(* return of ExchangeContext                                               *)
Returns(rv, q, a, o) ==
    IF waiting
    THEN {afterLookup(rv, trace, q, a, now, o,
                      [c |-> cache, msg |-> NoMsg, rtt |-> 0, age |-> -1])}
    ELSE {d \in {doQuery(rv, cache, trace, q, a, now, o)} : ~d.sent}

(* discoverRootServers: with no bootstrap server its error; else one      *)
(* round of the loop over r.systemServerAddrs, and, after it returned, the *)
(* first frame of the stack                                                *)
BootstrapStep ==
    /\ pc = "bootstrap"
    /\ \E rv \in {receiver(resolver, R)} :
       IF Len(rv.systemServerAddrs) = 0
       THEN /\ qerr' = QueryError("system resolvers not discovered", NoErr)
            /\ pc' = "done"
            /\ UNCHANGED <<cache, trace, net, exchanged, waiting, lastEx,
                           rootAddrs, stack, boot>>
       ELSE
       boot.i <= Len(rv.systemServerAddrs) /\
       LET a == rv.systemServerAddrs[boot.i]
           rest == SubSeq(rv.systemServerAddrs, boot.i + 1,
                          Len(rv.systemServerAddrs))
       IN \E o \in Outcomes(RootQuestion, a) :
          \E d \in Returns(rv, RootQuestion, a, o) :
          \E ips \in {referrals(rv, d.resp).ips} :
          LET e == IF d.err # NoErr THEN d.err
                   ELSE IF Len(ips) = 0
                   THEN "no IP addresses in root name server query"
                   ELSE NoErr
          IN /\ cache' = d.cache
             /\ trace' = d.trace
             /\ net' = Remember(RootQuestion, a, d, o)
             /\ exchanged' = (exchanged \/ d.sent)
             /\ waiting' = FALSE
             /\ lastEx' = Ex(RootQuestion, a, d, 0, rest)
             /\ IF e = NoErr
                THEN /\ rootAddrs' = ips
                     /\ stack' = <<Frame(rset.Question, <<>>, ips)>>
                     /\ pc' = "loop"
                     /\ UNCHANGED <<boot, qerr>>
                ELSE IF rest # <<>>
                THEN /\ boot' = [i |-> boot.i + 1, err |-> e]
                     /\ UNCHANGED <<rootAddrs, stack, pc, qerr>>
                ELSE /\ qerr' = QueryError("discover root servers: ", e)
                     /\ pc' = "done"
                     /\ UNCHANGED <<rootAddrs, stack, boot>>
    /\ UNCHANGED <<now, last, accessLog, panicked, R, resolver, rset, curAddr, prev>>
    /\ UNCHANGED <<lockVars, invoked>>

(* the top of the loop with no address left in the top frame *)
ServersExhausted ==
    /\ pc = "loop"
    /\ Len(stack) = 0 \/ Len(Top(stack).addrs) = 0
    /\ qerr' = IF Len(stack) = 0
               THEN QueryError("name servers exhausted", NoErr)
               ELSE QueryError("servers exhausted", NoErr)
    /\ pc' = "done"
    /\ UNCHANGED <<cache, now, last, accessLog, panicked, R, resolver, rset,
                   stack, trace, rootAddrs, curAddr, boot, net, exchanged,
                   lastEx, prev, waiting>>
    /\ UNCHANGED <<lockVars, invoked>>

(* one round of the loop: the next address of the top frame is queried *)
LoopStep ==
    /\ pc = "loop"
    /\ Len(stack) > 0
    /\ Len(Top(stack).addrs) > 0
    /\ LET frame == Top(stack)
           a     == Endpoint(Head(frame.addrs))
           st    == SetTop(stack, [frame EXCEPT !.addrs = Tail(@)])
       IN \E rv \in {receiver(resolver, R)} :
          \E o \in Outcomes(frame.q, a) :
          \E d \in Returns(rv, frame.q, a, o) :
          \E w \in {Body(st, rv, rset, a, d)} :
             /\ Becomes(w)
             /\ cache' = d.cache
             /\ net' = Remember(frame.q, a, d, o)
             /\ exchanged' = (exchanged \/ d.sent)
             /\ waiting' = FALSE
             /\ lastEx' = Ex(frame.q, a, d, Len(stack), Tail(frame.addrs))
    /\ UNCHANGED <<now, last, accessLog, panicked, R, rootAddrs, boot, prev>>
    /\ UNCHANGED <<lockVars, invoked>>

(* goto retry: the changed question of the top frame is sent to addr *)
RetryStep ==
    /\ pc = "retry"
    /\ LET frame == Top(stack)
           a     == Endpoint(curAddr)
       IN \E rv \in {receiver(resolver, R)} :
          \E o \in Outcomes(frame.q, a) :
          \E d \in Returns(rv, frame.q, a, o) :
          \E w \in {Body(stack, rv, rset, a, d)} :
             /\ Becomes(w)
             /\ cache' = d.cache
             /\ net' = Remember(frame.q, a, d, o)
             /\ exchanged' = (exchanged \/ d.sent)
             /\ waiting' = FALSE
             /\ lastEx' = Ex(frame.q, a, d, Len(stack), frame.addrs)
    /\ UNCHANGED <<now, last, accessLog, panicked, R, rootAddrs, boot, prev>>
    /\ UNCHANGED <<lockVars, invoked>>

WalkStep == SendQuery \/ BootstrapStep \/ ServersExhausted \/ LoopStep
               \/ RetryStep

Next == StartQuery \/ ClearCache \/ SendQuery \/ Wait \/ BootstrapStep
           \/ ServersExhausted \/ LoopStep \/ RetryStep

Spec == Init /\ [][Next]_vars

(* a call of Query that has started goes on running *)
FairSpec == Spec /\ WF_vars(WalkStep)

(* Resolver.ClearCache() called by another goroutine while a call of Query *)
(* is running: at the loop head, or while the call waits for a reply with  *)
(* the lock of the cache released                                          *)
ClearCacheMeanwhile ==
    /\ pc \in {"bootstrap", "loop", "retry"}
    /\ cache.lru # <<>>
    /\ cache' = Clear(cache)
    /\ UNCHANGED <<now, last, accessLog, panicked, walkVars>>
    /\ UNCHANGED <<lockVars, invoked>>

RaceNext == Next \/ ClearCacheMeanwhile

(* calls of Query while another goroutine clears the cache *)
RaceSpec == Init /\ [][RaceNext]_vars

(* Resolver.SetBootstrapServers(serverAddresses...) *)
SetBootstrapServers(serverAddresses) ==
    /\ \E n \in {normalizeAddrs(serverAddresses)} :
          /\ R' = IF n.err # NoErr THEN R
                  ELSE [R EXCEPT !.systemServerAddrs = n.addrs]
          /\ invoked' = [op |-> "SetBootstrapServers",
                         args |-> serverAddresses, err |-> n.err]
    /\ UNCHANGED <<cacheVars, pc, resolver, rset, qerr, stack, trace, rootAddrs,
                   curAddr, boot, net, exchanged, lastEx, prev, waiting, lockVars>>

(* Another thread calls SetBootstrapServers("127.0.0.251") at any time *)
BootstrapLists == {<<Root2IP>>}

SetOtherBootstrapServers ==
    \E serverAddresses \in BootstrapLists :
       /\ normalizeAddrs(serverAddresses).addrs # R.systemServerAddrs
       /\ SetBootstrapServers(serverAddresses)

(* Another thread assigns DefaultCachePolicy() to the exported field
   CachePolicy at any time *)
SetCachePolicy ==
    /\ \E policy \in {"default"} \ {R.CachePolicy} :
          R' = [R EXCEPT !.CachePolicy = policy]
    /\ UNCHANGED <<cacheVars, pc, resolver, rset, qerr, stack, trace, rootAddrs,
                   curAddr, boot, net, exchanged, lastEx, prev, waiting>>
    /\ UNCHANGED <<lockVars, invoked>>

ConcNext == Next \/ SetOtherBootstrapServers \/ SetCachePolicy

(* calls of Query while other threads change the Resolver *)
ConcSpec == Init /\ [][ConcNext]_vars

----------------------------------------------------------------------------
(* Calls of SetBootstrapServers on a Resolver made by New(), with          *)
(* addresses as a caller may write them: with or without a port, with an   *)
(* empty port, an IPv6 address in brackets or bare, a host name.           *)

MaxAddrs == 2

RawAddrs == {"127.0.0.250", "127.0.0.250:53", "127.0.0.251:5353",
             "2001:db8::1", "[2001:db8::1]:", "localhost", "localhost:5353"}

RawLists == UNION {[1..n -> RawAddrs] : n \in 0..MaxAddrs}

BootInit ==
    /\ cache = New(DefaultCacheSize)
    /\ now = 0
    /\ last = NoCall
    /\ accessLog = <<>>
    /\ panicked = FALSE
    /\ R = [CachePolicy |-> "default", ip4disabled |-> FALSE, ip6disabled |-> FALSE,
            systemServerAddrs |-> <<>>]
    /\ WalkIdle

BootNext == \E serverAddresses \in RawLists : SetBootstrapServers(serverAddresses)

BootSpec == BootInit /\ [][BootNext]_vars

----------------------------------------------------------------------------
(* Properties of the cache, checked under CacheSpec *)

CacheOpStep == now' = now

(* C5: after any sequence of Update, Lookup and Clear calls the mapping    *)
(* holds at most maxSize entries, the eviction list has the same length    *)
(* and the same keys, and Update never reached the out-of-sync panic.      *)
C5_SizeBoundedAndInSync ==
    /\ Cardinality(DOMAIN cache.cache) <= cache.maxSize
    /\ Cardinality(DOMAIN cache.cache) = Len(cache.lru)
    /\ SeqSet(cache.lru) = DOMAIN cache.cache
    /\ ~panicked

C5_Witness ==
    /\ last.op = "Update"
    /\ last.removed >= 1
    /\ cache.maxSize = 2
    /\ Len(cache.lru) = 2

(* C6: eviction is least-recently-used by access.  A Lookup hit and an     *)
(* Update make their key the most recent one; the entries that survive an  *)
(* Update are exactly the maxSize most recently accessed ones, and for     *)
(* maxSize >= 1 the key just updated is among them.                        *)
C6_LRUByAccess ==
    [][(CacheOpStep /\ cache.maxSize >= 1) =>
        /\ (last'.op = "Update") =>
              LET order == Touch(accessLog, last'.key) IN
              /\ cache'.lru = LastN(order, cache.maxSize)
              /\ DOMAIN cache'.cache = SeqSet(LastN(order, cache.maxSize))
              /\ last'.key \in DOMAIN cache'.cache
              /\ cache'.lru[Len(cache'.lru)] = last'.key
        /\ (last'.op = "Lookup" /\ last'.msg # NoMsg) =>
              /\ cache'.lru = Touch(accessLog, last'.key)
              /\ DOMAIN cache'.cache = DOMAIN cache.cache]_vars

C6_Witness ==
    /\ last.op = "Update"
    /\ last.removed = 1
    /\ cache.maxSize = 2
    /\ Len(cache.lru) = 2
    /\ cache.lru[2] = last.key
    /\ cache.cache[cache.lru[1]].addedAt < cache.cache[last.key].addedAt

(* C7 as stated: a Lookup is a hit iff the key has an entry with           *)
(* addedAt + ttl > now, so a Lookup at exactly addedAt + ttl is a miss.    *)
C7_Original ==
    [][(CacheOpStep /\ last'.op = "Lookup") =>
        ((last'.msg # NoMsg) <=>
            /\ last'.key \in DOMAIN cache.cache
            /\ cache.cache[last'.key].addedAt + cache.cache[last'.key].ttl > now)]_vars

(* C7 amended: a Lookup is a hit iff the key has an entry with             *)
(* addedAt + ttl >= now; a Lookup at exactly addedAt + ttl is still a hit. *)
C7_AliveUntilStrictlyAfterTTL ==
    [][(CacheOpStep /\ last'.op = "Lookup") =>
        ((last'.msg # NoMsg) <=>
            /\ last'.key \in DOMAIN cache.cache
            /\ cache.cache[last'.key].addedAt + cache.cache[last'.key].ttl >= now)]_vars

C7_Witness ==
    /\ last.op = "Lookup"
    /\ last.msg # NoMsg
    /\ last.key \in DOMAIN cache.cache
    /\ cache.cache[last.key].ttl > 0
    /\ cache.cache[last.key].addedAt + cache.cache[last.key].ttl = now

(* C8: a Lookup made after the entry's ttl has expired returns a miss      *)
(* (no message, age -1) and removes the entry from the mapping and from    *)
(* the eviction list; an absent key comes back only through an Update of   *)
(* that key.                                                               *)
C8_ExpiredLookupRemoves ==
    [][CacheOpStep =>
        /\ (/\ last'.op = "Lookup"
            /\ last'.key \in DOMAIN cache.cache
            /\ cache.cache[last'.key].addedAt + cache.cache[last'.key].ttl < now)
           => /\ last'.msg = NoMsg
              /\ last'.age = -1
              /\ last'.key \notin DOMAIN cache'.cache
              /\ last'.key \notin SeqSet(cache'.lru)
              /\ DOMAIN cache'.cache = DOMAIN cache.cache \ {last'.key}
        /\ \A k \in CKeys :
              (k \notin DOMAIN cache.cache /\ k \in DOMAIN cache'.cache)
              => (last'.op = "Update" /\ last'.key = k)]_vars

C8_Witness ==
    /\ last.op = "Lookup"
    /\ last.removed = 1
    /\ last.msg = NoMsg
    /\ last.age = -1
    /\ last.key \notin DOMAIN cache.cache
    /\ cache.lru # <<>>

(* C9: for maxSize >= 1, Update(q, a, r, t) with t > 0 immediately         *)
(* followed by Lookup(q, a) returns a message equal to r with age 0,       *)
(* whatever the cache held before.                                         *)
C9_UpdateThenLookup ==
    [][(/\ CacheOpStep
        /\ cache.maxSize >= 1
        /\ last.op = "Update" /\ last.ttl > 0
        /\ last'.op = "Lookup" /\ last'.key = last.key)
       => (last'.msg = last.msg /\ last'.age = 0)]_vars

C9_Witness ==
    /\ last.op = "Lookup"
    /\ last.follows = "Update"
    /\ last.age = 0
    /\ last.msg = Msg("NXDOMAIN", TRUE, <<>>, <<>>, <<>>)
    /\ cache.maxSize = 1
    /\ cache.cache[last.key].ttl > 0

----------------------------------------------------------------------------
(* Properties of the walk, checked under Spec (C2 under FairSpec) *)

(* the step is a call of doQuery: it adds its node to the trace *)
DoQueryStep == Len(trace'.nodes) = Len(trace.nodes) + 1

(* the message of the node that the call of doQuery of this step has added *)
(* to the trace: the response it got                                       *)
Brought == trace'.nodes[Len(trace'.nodes)].Message

(* the question and the address of the call of doQuery that comes next *)
HasNextCall ==
    \/ pc = "retry"
    \/ pc = "loop" /\ Len(stack) > 0 /\ Len(Top(stack).addrs) > 0

NextCall ==
    [q |-> Top(stack).q,
     addr |-> Endpoint(IF pc = "retry" THEN curAddr ELSE Head(Top(stack).addrs))]

(* C1: in the walk of one Query, a call of doQuery for a question and an   *)
(* address that the trace of this walk already holds sends nothing on the  *)
(* network and fails with ErrCircular, and Query returns in the same step  *)
(* with "{rtype} {domain}: " wrapping ErrCircular.                         *)
C1_RepeatedQueryIsCircular ==
    [][ (HasNextCall /\ TraceContains(trace, NextCall.q, NextCall.addr)
            /\ DoQueryStep)
        => /\ lastEx'.q = NextCall.q
           /\ lastEx'.addr = NextCall.addr
           /\ ~lastEx'.sent
           /\ lastEx'.err = ErrCircular
           /\ exchanged' = exchanged
           /\ net' = net
           /\ cache' = cache
           /\ pc' = "done"
           /\ qerr' = LookupError(rset, ErrCircular)
           /\ qerr'.rtype = "A" /\ qerr'.name = Domain ]_vars

(* ns1 and ns2 are CNAMEs of each other: the second AAAA query for ns1 at  *)
(* the root server was not sent and ended the call                        *)
C1_Witness ==
    /\ pc = "done"
    /\ qerr = LookupError(rset, ErrCircular)
    /\ lastEx.q = Question(Ns1Name, "AAAA")
    /\ lastEx.addr = At(RootIP)
    /\ ~lastEx.sent
    /\ \E i \in 1..Len(trace.nodes) :
          /\ trace.nodes[i].q = Question(Ns2Name, "AAAA")
          /\ trace.nodes[i].Server = At(RootIP)
          /\ trace.nodes[i].Message = Respond("NOERROR", <<CNAME(Ns2Name, Ns1Name)>>)

(* C2: every call of Query that has started returns, whatever the servers  *)
(* reply, provided each exchange returns (the walk keeps taking steps).    *)
C2_QueryTerminates == (pc \in {"bootstrap", "loop", "retry"}) ~> (pc = "done")

(* a walk through missing glue and failing servers that has ended *)
C2_Witness ==
    /\ pc = "done"
    /\ qerr = QueryError("servers exhausted", NoErr)
    /\ Len(stack) > 1
    /\ Len(trace.nodes) >= 6

(* C3: a response with rcode NXDomain to the outermost frame ends Query    *)
(* with an error that unwraps to ErrNXDomain (no other server is asked).   *)
C3_OuterNXDomainIsTerminal ==
    (lastEx.depth = 1 /\ lastEx.err = NoErr /\ lastEx.rcode = "NXDOMAIN")
        => (pc = "done" /\ qerr.cause = ErrNXDomain)

(* a call of doQuery that ended in ServFail or an ordinary network error *)
Failed(ex) ==
    \/ ex.err = NoErr /\ ex.rcode = "SERVFAIL"
    \/ ex.err \in {ErrTransport, ENETUNREACH}

(* after a failed call with addresses left in the frame, the walk is at    *)
(* the top of the loop, and its next call asks the same question of the    *)
(* next address                                                            *)
InFrame(ex, outer) == ex.depth >= 1 /\ (outer => ex.depth = 1)

GoesOnToNext(outer) ==
    /\ (InFrame(lastEx', outer) /\ Failed(lastEx') /\ lastEx'.rest # <<>>
           /\ DoQueryStep)
          => pc' = "loop"
    /\ (InFrame(lastEx, outer) /\ Failed(lastEx) /\ lastEx.rest # <<>>
           /\ DoQueryStep)
          => (lastEx'.q = lastEx.q /\ lastEx'.addr = Endpoint(Head(lastEx.rest)))

(* a call of Query that returns a result returns the records of the        *)
(* authoritative answer just received, with the address it came from       *)
ResultIsLastAnswer ==
    (pc # "done" /\ pc' = "done" /\ qerr' = NoQueryError)
        => /\ rset'.ServerAddr = lastEx'.addr
           /\ lastEx'.err = NoErr /\ lastEx'.rcode = "NOERROR"
           /\ rset'.Raw.Authoritative
           /\ rset'.Raw = (IF lastEx'.sent
                           THEN Brought
                           ELSE cache.cache[<<lastEx'.q, lastEx'.addr>>].msg)
           /\ rset'.Values # <<>> => Head(rset'.Values) = rset'.Raw.Answer[1].Data
                                     \/ rset'.Raw.Answer[1].Rrtype = "CNAME"

(* C4 as stated: in any frame of the walk *)
C4_Original == [][GoesOnToNext(FALSE) /\ ResultIsLastAnswer]_vars

(* C4: in the outermost frame, when a server answers ServFail or the       *)
(* exchange fails with an ordinary network error and the frame has further *)
(* addresses, the next call asks the next address the same question; the   *)
(* result of Query is the authoritative answer of the server asked last.   *)
C4_OuterFallback == [][GoesOnToNext(TRUE) /\ ResultIsLastAnswer]_vars

(* ns1 answered ServFail and the answer of ns2 is the result *)
C4_Witness ==
    /\ pc = "done"
    /\ qerr = NoQueryError
    /\ rset.ServerAddr = At(Ns2IP)
    /\ rset.Values = <<Value>>
    /\ \E i \in 1..Len(trace.nodes) :
          /\ trace.nodes[i].Server = At(Ns1IP)
          /\ trace.nodes[i].q = Question(Domain, "A")
          /\ trace.nodes[i].Message = Respond("SERVFAIL", <<>>)

(* C10: if the previous call of Query for the same question returned       *)
(* values, every response of its walk went through the cache and all of    *)
(* them were still in the cache, not expired, when this call started, then *)
(* this call returns the same values with Age > 0 and has sent nothing on  *)
(* the network.                                                            *)
C10_SecondQueryFromCache ==
    (pc = "done" /\ prev.valid /\ prev.served /\ prev.q = rset.Question)
        => /\ ~exchanged
           /\ qerr = NoQueryError
           /\ rset.Values = prev.Values
           /\ rset.Age > 0
           /\ \A i \in 1..Len(trace.nodes) : trace.nodes[i].Age > 0

C10_Witness ==
    /\ pc = "done"
    /\ prev.valid /\ prev.served
    /\ prev.Values = <<Value>>
    /\ rset.Values = <<Value>>
    /\ rset.Age > 0
    /\ ~exchanged
    /\ Len(trace.nodes) >= 3
    /\ R.CachePolicy = "obey"

----------------------------------------------------------------------------
(* The cache policy in doQuery *)

(* the error of a call of doQuery that returned before r.cache.Lookup *)
Refused(ex) == ex.err \in {ErrCircular, ErrIPv4Disabled, ErrIPv6Disabled}

(* rs.fromResponse(resp.Copy(), addr, rtt, age, true) of doQuery *)
Preview(q, addr, resp) ==
    fromResponse(NewRecordSet(q.Name, q.Qtype, q), resp, addr, -1, TRUE)

(* C11: in every call of doQuery the cache policy is consulted only for a  *)
(* response that the call has received from the network; the response is   *)
(* put into the cache under (question, endpoint) exactly if the policy of   *)
(* the call gives it a positive duration; and an entry of the cache that    *)
(* has not expired is returned as it is, without an exchange, whatever the  *)
(* configured policy says about it.                                         *)
C11_PolicyOnlyForNetworkResponses ==
    [][DoQueryStep =>
        LET ex  == lastEx'
            key == <<ex.q, ex.addr>>
        IN /\ ex.consulted => ex.sent /\ ex.rcode # ""
           /\ ex.sent /\ ex.rcode # "" =>
                ((key \in DOMAIN cache'.cache /\ cache'.cache[key].addedAt = now)
                 <=> CachePolicy(resolver.CachePolicy,
                                 Preview(ex.q, ex.addr, Brought)) > 0)
           /\ ~(ex.sent /\ ex.rcode # "") =>
                \A k \in DOMAIN cache'.cache :
                   k \in DOMAIN cache.cache /\ cache'.cache[k] = cache.cache[k]
           /\ (/\ key \in DOMAIN cache.cache
               /\ ~IsExpired(cache.cache[key], now)
               /\ ~Refused(ex))
              => /\ ~ex.sent
                 /\ ex.err = NoErr
                 /\ ex.rcode = cache.cache[key].msg.Rcode
                 /\ ex.age = now - cache.cache[key].addedAt
                 /\ cache'.cache[key] = cache.cache[key]]_vars

(* a response was served from the cache although the policy that is now    *)
(* configured, and the one of the call, would not have put it there        *)
C11_Witness ==
    /\ pc \in {"loop", "retry", "done"}
    /\ ~lastEx.sent
    /\ lastEx.rcode # ""
    /\ lastEx.age > 0
    /\ <<lastEx.q, lastEx.addr>> \in DOMAIN cache.cache
    /\ CachePolicy(R.CachePolicy,
                   Preview(lastEx.q, lastEx.addr,
                           cache.cache[<<lastEx.q, lastEx.addr>>].msg)) = 0
    /\ CachePolicy(resolver.CachePolicy,
                   Preview(lastEx.q, lastEx.addr,
                           cache.cache[<<lastEx.q, lastEx.addr>>].msg)) = 0

----------------------------------------------------------------------------
(* The record set of a successful call *)

(* the step in which the call of Query returns without an error *)
Succeeds == pc # "done" /\ pc' = "done" /\ qerr' = NoQueryError

(* C12: the Age of the record set of a successful Query is -1 when the     *)
(* final response came from the network and was not put into the cache, 0  *)
(* when this call put it into the cache, and positive when it was in the   *)
(* cache before this call started.                                         *)
C12_AgeOfResult ==
    [][Succeeds =>
        LET key == <<lastEx'.q, lastEx'.addr>>
            added == /\ key \in DOMAIN cache'.cache
                     /\ cache'.cache[key].addedAt = now
        IN /\ rset'.ServerAddr = lastEx'.addr
           /\ lastEx'.sent /\ ~added => rset'.Age = -1
           /\ lastEx'.sent /\ added => rset'.Age = 0
           /\ ~lastEx'.sent =>
                /\ key \in DOMAIN cache.cache
                /\ cache.cache[key].addedAt < now
                /\ rset'.Age = now - cache.cache[key].addedAt
                /\ rset'.Age > 0]_vars

(* a call has returned a cached answer; the call before it had put the    *)
(* answer into the cache and returned it with Age 0                        *)
C12_Witness ==
    /\ pc = "done"
    /\ qerr = NoQueryError
    /\ ~lastEx.sent
    /\ rset.Age > 0
    /\ prev.valid
    /\ ~prev.failed

(* some alias chain from name comes back to a name it has visited *)
RECURSIVE Looping(_, _, _)
Looping(all, name, seen) ==
    \/ name \in seen
    \/ \E i \in 1..Len(all) :
          /\ all[i].Name = name
          /\ all[i].Rrtype = "CNAME"
          /\ Looping(all, all[i].Data, seen \cup {name})

(* The values that the records rrs of a response give to name, in the      *)
(* order of rrs, each with the smallest ttl on its way from the asked      *)
(* name: an alias stands for the values of its target, found among all     *)
(* records of the response, and for itself if the target has none.         *)
RECURSIVE Resolved(_, _, _, _)
Resolved(all, rrs, name, ttl) ==
    IF rrs = <<>> THEN <<>>
    ELSE LET rr  == Head(rrs)
             low == IF ttl = NoTtl \/ rr.Ttl < ttl THEN rr.Ttl ELSE ttl
             via == IF rr.Rrtype = "CNAME"
                    THEN Resolved(all, all, rr.Data, low) ELSE <<>>
         IN (IF rr.Name # name THEN <<>>
             ELSE IF via # <<>> THEN via
             ELSE <<[value |-> rr.Data, ttl |-> low, rrtype |-> rr.Rrtype]>>)
            \o Resolved(all, Tail(rrs), name, ttl)

Contributions(m, name) ==
    IF Looping(m.Answer \o m.Ns \o m.Extra, name, {}) THEN <<>>
    ELSE Resolved(m.Answer \o m.Ns \o m.Extra, m.Answer \o m.Ns, name, NoTtl)

(* C13: when Query returns from an authoritative response, the Values of   *)
(* the record set are the values of the records that answer the asked      *)
(* name, aliases resolved, in the order of the response, and TTL is the    *)
(* smallest ttl of these records, a value reached through aliases          *)
(* counting with the smallest ttl along its chain.                         *)
C13_TTLIsMinOverValues ==
    pc = "done" /\ qerr = NoQueryError =>
        LET cs == Contributions(rset.Raw, rset.Question.Name) IN
        /\ rset.Values = [i \in 1..Len(cs) |-> cs[i].value]
        /\ \A i \in 1..Len(cs) : rset.TTL <= cs[i].ttl
        /\ cs # <<>> => \E i \in 1..Len(cs) : rset.TTL = cs[i].ttl

(* C14: of an inconsistent record set in the final response, Query keeps   *)
(* only the records of the asked name and the asked type: Values holds     *)
(* their values and nothing else, and TTL is the smallest of their ttls.   *)
C14_OtherNamesAndTypesIgnored ==
    pc = "done" /\ qerr = NoQueryError =>
        LET IsAsked(c) == c.rrtype = rset.Type
            cs == SelectSeq(Contributions(rset.Raw, rset.Question.Name), IsAsked)
        IN /\ rset.Values = [i \in 1..Len(cs) |-> cs[i].value]
           /\ \A i \in 1..Len(cs) : rset.TTL <= cs[i].ttl
           /\ cs # <<>> => \E i \in 1..Len(cs) : rset.TTL = cs[i].ttl

(* C15: when the alias chain of the asked name loops in the authoritative  *)
(* response to the question of the outermost frame, Query ends with an     *)
(* error that unwraps to ErrCircular and returns no values; it does not    *)
(* return a success.                                                       *)
C15_CircularAnswerIsError ==
    [][DoQueryStep /\ lastEx'.depth = 1 /\ lastEx'.rcode = "NOERROR" =>
        LET key  == <<lastEx'.q, lastEx'.addr>>
            resp == IF lastEx'.sent THEN Brought ELSE cache.cache[key].msg
        IN isAuthoritative(resp)
           /\ Looping(resp.Answer \o resp.Ns \o resp.Extra, lastEx'.q.Name, {})
           => /\ pc' = "done"
              /\ qerr'.cause = ErrCircular
              /\ rset'.Values = <<>>]_vars

----------------------------------------------------------------------------
(* The trace of a call *)

(* nodes i and j of the trace are for the same question and endpoint *)
SamePair(i, j) ==
    /\ trace.nodes[i].q = trace.nodes[j].q
    /\ trace.nodes[i].Server = trace.nodes[j].Server

(* C16 as claimed: no two nodes of the trace of a call have the same       *)
(* (question, endpoint) pair.                                              *)
C16_Original ==
    \A i, j \in 1..Len(trace.nodes) : SamePair(i, j) => i = j

(* C16: no two nodes of the trace of a call have the same (question,       *)
(* endpoint) pair, but for the nodes that record a repeated query.  A node *)
(* repeats the pair of an earlier node exactly when its Error is           *)
(* ErrCircular.  In the walk such a node is the last node of the trace;    *)
(* among the bootstrap queries, where the call goes on to the next         *)
(* bootstrap server, other nodes may follow it, and a pair may be repeated *)
(* more than once.                                                         *)
C16_NoPairTwiceButTheCycle ==
    \A j \in 1..Len(trace.nodes) :
        LET repeats == \E i \in 1..(j - 1) : SamePair(i, j)
        IN /\ repeats <=> trace.nodes[j].Error = ErrCircular
           /\ repeats /\ trace.nodes[j].q # RootQuestion => j = Len(trace.nodes)

(* the system names the first bootstrap server three times: its exchange   *)
(* failed, the second and the third query for it were refused as repeated  *)
(* and the call went on; later the walk has ended on a repeated query,     *)
(* and the trace holds that pair twice                                     *)
C16_Witness ==
    /\ pc = "done"
    /\ qerr.cause = ErrCircular
    /\ Len(trace.nodes) > 4
    /\ SamePair(1, 2) /\ SamePair(1, 3)
    /\ trace.nodes[1].Error # ErrCircular
    /\ trace.nodes[2].Error = ErrCircular
    /\ trace.nodes[3].Error = ErrCircular
    /\ trace.nodes[Len(trace.nodes)].q # RootQuestion
    /\ \E i \in 1..(Len(trace.nodes) - 1) : SamePair(i, Len(trace.nodes))

----------------------------------------------------------------------------
(* Errors of an exchange *)

(* C17: once an exchange has failed with Canceled or DeadlineExceeded, in  *)
(* the bootstrap or in the walk, the call attempts no further exchange and *)
(* returns an error that unwraps to that error.                            *)
C17_ContextErrorIsTerminal ==
    [][DoQueryStep /\ lastEx'.err \in {Canceled, DeadlineExceeded} =>
        /\ pc' = "done"
        /\ qerr'.cause = lastEx'.err]_vars

(* C18: an ordinary transport error of an exchange of the outermost frame  *)
(* only skips the endpoint: the walk goes on with the endpoints that are   *)
(* left; when none is left, the error that Query returns unwraps to the    *)
(* transport error.                                                        *)
C18_LastTransportErrorIsReturned ==
    [][/\ (DoQueryStep /\ lastEx'.depth = 1 /\ lastEx'.err = ErrTransport =>
             /\ pc' = "loop"
             /\ Len(stack') = 1
             /\ Top(stack').q = lastEx'.q
             /\ Top(stack').addrs = lastEx'.rest)
       /\ (/\ pc # "done" /\ pc' = "done"
           /\ lastEx'.depth = 1 /\ lastEx'.err = ErrTransport
           /\ lastEx'.rest = <<>>
           => qerr'.cause = ErrTransport)]_vars

(* an exchange of this call with an endpoint of the family (IPv4 or not)   *)
(* has failed with ENETUNREACH; in the walk: in the loop of resolver.Query, *)
(* whose questions are not the root question of the bootstrap              *)
Unreachable(tr, v4, inWalk) ==
    \E i \in 1..Len(tr.nodes) :
        /\ tr.nodes[i].Error = ENETUNREACH
        /\ IsIPv4(tr.nodes[i].Server) = v4
        /\ inWalk => tr.nodes[i].q # RootQuestion

(* the responses that the call has seen so far *)
Seen == {trace.nodes[i].Message : i \in 1..Len(trace.nodes)}

(* the family stays disabled in this step: no exchange with an endpoint of *)
(* the family, no cached response for one, no address of the family from   *)
(* Referrals                                                               *)
StaysDisabled(v4) ==
    /\ IsIPv4(lastEx'.addr) = v4 => ~lastEx'.sent /\ lastEx'.rcode = ""
    /\ \A m \in Seen' :
          LET ips == referrals(resolver', m).ips IN
          \A n \in 1..Len(ips) : IsIPv4(ips[n]) # v4

(* C19 as claimed: after any exchange of the call has failed with          *)
(* ENETUNREACH towards an endpoint of one address family, the family stays *)
(* disabled for the remainder of the call.                                 *)
C19_Original ==
    [][DoQueryStep =>
        \A v4 \in BOOLEAN :
           Unreachable(trace, v4, FALSE) => StaysDisabled(v4)]_vars

(* C19: after an exchange of the walk, one made for a frame of the stack,  *)
(* has failed with ENETUNREACH towards an endpoint of one address family,  *)
(* the family stays disabled for the remainder of the call: no later       *)
(* exchange is sent to an endpoint of that family, no cached response is   *)
(* served for one, and Referrals yields no address of that family.         *)
C19_UnreachableFamilyStaysDisabled ==
    [][DoQueryStep =>
        \A v4 \in BOOLEAN :
           Unreachable(trace, v4, TRUE) => StaysDisabled(v4)]_vars

(* 127.0.0.101 was unreachable; the call has then asked the IPv6 server,   *)
(* whose referral holds only an IPv4 address, and Referrals has yielded    *)
(* nothing                                                                 *)
C19_Witness ==
    /\ Unreachable(trace, TRUE, TRUE)
    /\ resolver.ip4disabled
    /\ lastEx.addr = At(Ns6IP)
    /\ lastEx.sent
    /\ lastEx.rcode = "NOERROR"
    /\ pc = "done"
    /\ qerr = QueryError("empty response", NoErr)

----------------------------------------------------------------------------
(* The values of a call and the shared Resolver *)

(* C20: a call of Query works with the cache policy, the bootstrap list    *)
(* and the IPv4/IPv6 flags that it copied from the Resolver at its entry   *)
(* (a Resolver that had no bootstrap servers has those that the entry of   *)
(* the call read from the system, one that had some is left as it was);    *)
(* what another thread assigns to the Resolver while the call is running   *)
(* changes nothing for the call: the bootstrap queries go to the servers   *)
(* of its own list, in order, a response is cached exactly if its own      *)
(* policy says so, and its flags change only by ENETUNREACH in its walk.   *)
C20_CallUsesItsSnapshot ==
    [][/\ (pc \in {"idle", "done"} /\ pc' = "bootstrap" =>
             /\ resolver' = R'
             /\ Len(R.systemServerAddrs) > 0 => R' = R)
       /\ (DoQueryStep =>
             LET ex  == lastEx'
                 key == <<ex.q, ex.addr>>
                 off == ex.depth > 0 /\ ex.err = ENETUNREACH
             IN /\ pc = "bootstrap" =>
                     /\ boot.i <= Len(resolver.systemServerAddrs)
                     /\ ex.addr = resolver.systemServerAddrs[boot.i]
                     /\ ex.q = RootQuestion
                /\ ex.sent /\ ex.rcode # "" =>
                     ((key \in DOMAIN cache'.cache
                       /\ cache'.cache[key].addedAt = now)
                      <=> CachePolicy(resolver.CachePolicy,
                                      Preview(ex.q, ex.addr, Brought)) > 0)
                /\ (IF IsIPv4(ex.addr) THEN resolver.ip4disabled
                                        ELSE resolver.ip6disabled) => ~ex.sent
                /\ resolver'.CachePolicy = resolver.CachePolicy
                /\ resolver'.systemServerAddrs = resolver.systemServerAddrs
                /\ resolver'.ip4disabled =
                      (resolver.ip4disabled \/ (off /\ IsIPv4(ex.addr)))
                /\ resolver'.ip6disabled =
                      (resolver.ip6disabled \/ (off /\ ~IsIPv4(ex.addr))))
       /\ (pc \notin {"idle", "done"} /\ R' # R =>
             UNCHANGED <<resolver, pc, stack, trace, rset, qerr, cache>>)]_vars

(* a running call has exchanged a question with a name server while the    *)
(* Resolver holds another policy and another bootstrap list than the call  *)
C20_Witness ==
    /\ pc \in {"loop", "retry"}
    /\ R.CachePolicy # resolver.CachePolicy
    /\ R.systemServerAddrs # resolver.systemServerAddrs
    /\ lastEx.depth > 0
    /\ lastEx.sent
    /\ lastEx.rcode # ""

----------------------------------------------------------------------------
(* Threads that call Query, SetBootstrapServers and ClearCache side by     *)
(* side, at the grain of the locks: one step takes a mutex, the next does  *)
(* what the code does under it and releases it.  The trace and the stack   *)
(* of a walk are local to its call and take no lock; of a walk these steps *)
(* keep its calls of doQuery.  An exchange may last for ever.              *)

Threads == {"t1", "t2"}

(* a thread outside any call; r is the resolver value of its Query *)
IdleThread ==
    [op |-> "none", pc |-> "idle",
     r |-> [CachePolicy |-> "default", ip4disabled |-> FALSE,
            ip6disabled |-> FALSE, systemServerAddrs |-> <<>>],
     key |-> NoKey, resp |-> NoMsg, ttl |-> 0, arg |-> <<>>]

(* c.mu.Unlock(), R.mu.Unlock(): the mutex is free again *)
UnlockForgotten(t) == t

Unlock(t) == NoThread

(* the thread t goes to the state w *)
Goes(t, w) == thr' = [thr EXCEPT ![t] = w]

(* a thread enters Resolver.Query: it waits for R.mu *)
QueryCall(t) ==
    /\ thr[t].pc = "idle"
    /\ Goes(t, [thr[t] EXCEPT !.op = "Query", !.pc = "wantMu"])
    /\ UNCHANGED <<cacheVars, walkVars, mu, cmu, invoked>>

(* R.mu.Lock() in Resolver.Query *)
QueryLock(t) ==
    /\ thr[t].pc = "wantMu" /\ thr[t].op = "Query"
    /\ mu = NoThread
    /\ mu' = t
    /\ Goes(t, [thr[t] EXCEPT !.pc = "locked"])
    /\ UNCHANGED <<cacheVars, walkVars, cmu, invoked>>

(* r := &resolver{...}; R.mu.Unlock() *)
QuerySnapshot(t) ==
    /\ thr[t].pc = "locked" /\ thr[t].op = "Query"
    /\ mu' = Unlock(t)
    /\ Goes(t, [thr[t] EXCEPT !.r = R, !.pc = "walk"])
    /\ UNCHANGED <<cacheVars, walkVars, cmu, invoked>>

(* the questions and addresses of the calls of doQuery of a walk *)
LockKeys(rv) ==
    {<<RootQuestion, rv.systemServerAddrs[i]>> :
        i \in 1..Len(rv.systemServerAddrs)}
    \cup {<<Question(Domain, "A"), At(RootIP)>>}

(* r.doQuery(ctx, q, addr, trace) up to r.cache.Lookup(q, addr), which     *)
(* waits for c.mu                                                          *)
DoQueryCall(t) ==
    /\ thr[t].pc = "walk"
    /\ \E key \in LockKeys(thr[t].r) :
          Goes(t, [thr[t] EXCEPT !.key = key, !.pc = "wantLookup"])
    /\ UNCHANGED <<cacheVars, walkVars, mu, cmu, invoked>>

(* c.mu.Lock() in Cache.Lookup *)
LookupLock(t) ==
    /\ thr[t].pc = "wantLookup"
    /\ cmu = NoThread
    /\ cmu' = t
    /\ Goes(t, [thr[t] EXCEPT !.pc = "lookup"])
    /\ UNCHANGED <<cacheVars, walkVars, mu, invoked>>

(* Cache.Lookup under the lock and its deferred c.mu.Unlock(); on a miss   *)
(* doQuery goes on to new(dns.Client).ExchangeContext(ctx, m, addr)        *)
LookupReturn(t) ==
    /\ thr[t].pc = "lookup"
    /\ \E l \in {Lookup(cache, thr[t].key, now)} :
          /\ cache' = l.c
          /\ Goes(t, [thr[t] EXCEPT
                         !.pc = IF l.msg # NoMsg THEN "walk" ELSE "exchange"])
    /\ cmu' = Unlock(t)
    /\ UNCHANGED <<now, last, accessLog, panicked, walkVars, mu, invoked>>

(* the exchange returns, and r.CachePolicy(rs) says whether to cache *)
ExchangeReturn(t) ==
    /\ thr[t].pc = "exchange"
    /\ \E o \in Replies(thr[t].key[1], thr[t].key[2]) :
       \E ttl \in {IF o.resp = NoMsg THEN 0
                   ELSE CachePolicy(thr[t].r.CachePolicy,
                            fromResponse(NewRecordSet(thr[t].key[1].Name,
                                                      thr[t].key[1].Qtype,
                                                      thr[t].key[1]),
                                         o.resp, thr[t].key[2], -1, TRUE))} :
          Goes(t, IF ttl > 0
                  THEN [thr[t] EXCEPT !.resp = o.resp, !.ttl = ttl,
                                      !.pc = "wantUpdate"]
                  ELSE [thr[t] EXCEPT !.pc = "walk"])
    /\ UNCHANGED <<cacheVars, walkVars, mu, cmu, invoked>>

(* c.mu.Lock() in Cache.Update *)
UpdateLock(t) ==
    /\ thr[t].pc = "wantUpdate"
    /\ cmu = NoThread
    /\ cmu' = t
    /\ Goes(t, [thr[t] EXCEPT !.pc = "update"])
    /\ UNCHANGED <<cacheVars, walkVars, mu, invoked>>

(* Cache.Update under the lock and its deferred c.mu.Unlock() *)
UpdateReturn(t) ==
    /\ thr[t].pc = "update"
    /\ cache' = Update(cache, thr[t].key, thr[t].resp, thr[t].ttl, now)
    /\ cmu' = Unlock(t)
    /\ Goes(t, [thr[t] EXCEPT !.resp = NoMsg, !.ttl = 0, !.pc = "walk"])
    /\ UNCHANGED <<now, last, accessLog, panicked, walkVars, mu, invoked>>

(* the walk is over and Query returns *)
QueryReturn(t) ==
    /\ thr[t].pc = "walk"
    /\ Goes(t, IdleThread)
    /\ UNCHANGED <<cacheVars, walkVars, mu, cmu, invoked>>

(* a thread enters SetBootstrapServers: the addresses are normalized and   *)
(* it waits for r.mu                                                       *)
SetCall(t) ==
    /\ thr[t].pc = "idle"
    /\ \E serverAddresses \in {<<RootIP>>, <<RootIP, Root2IP>>} :
       \E n \in {normalizeAddrs(serverAddresses)} :
          /\ n.err = NoErr
          /\ Goes(t, [thr[t] EXCEPT !.op = "SetBootstrapServers",
                                    !.arg = n.addrs, !.pc = "wantMu"])
    /\ UNCHANGED <<cacheVars, walkVars, mu, cmu, invoked>>

(* r.mu.Lock() in SetBootstrapServers *)
SetLock(t) ==
    /\ thr[t].pc = "wantMu" /\ thr[t].op = "SetBootstrapServers"
    /\ mu = NoThread
    /\ mu' = t
    /\ Goes(t, [thr[t] EXCEPT !.pc = "locked"])
    /\ UNCHANGED <<cacheVars, walkVars, cmu, invoked>>

(* r.systemServerAddrs = serverAddresses; r.mu.Unlock() *)
SetStore(t) ==
    /\ thr[t].pc = "locked" /\ thr[t].op = "SetBootstrapServers"
    /\ R' = [R EXCEPT !.systemServerAddrs = thr[t].arg]
    /\ mu' = Unlock(t)
    /\ Goes(t, IdleThread)
    /\ UNCHANGED <<cacheVars, pc, resolver, rset, qerr, stack, trace, rootAddrs,
                   curAddr, boot, net, exchanged, lastEx, prev, waiting, cmu, invoked>>

(* a thread enters ClearCache: Cache.Clear waits for c.mu *)
ClearCall(t) ==
    /\ thr[t].pc = "idle"
    /\ Goes(t, [thr[t] EXCEPT !.op = "ClearCache", !.pc = "wantClear"])
    /\ UNCHANGED <<cacheVars, walkVars, mu, cmu, invoked>>

(* c.mu.Lock() in Cache.Clear *)
ClearLock(t) ==
    /\ thr[t].pc = "wantClear"
    /\ cmu = NoThread
    /\ cmu' = t
    /\ Goes(t, [thr[t] EXCEPT !.pc = "clear"])
    /\ UNCHANGED <<cacheVars, walkVars, mu, invoked>>

(* Cache.Clear under the lock; c.mu.Unlock() *)
ClearReturn(t) ==
    /\ thr[t].pc = "clear"
    /\ cache' = Clear(cache)
    /\ cmu' = Unlock(t)
    /\ Goes(t, IdleThread)
    /\ UNCHANGED <<now, last, accessLog, panicked, walkVars, mu, invoked>>

(* New() and SetBootstrapServers(RootIP, Root2IP); no thread has called *)
LockInit ==
    /\ cache = New(DefaultCacheSize)
    /\ now = 0
    /\ last = NoCall
    /\ accessLog = <<>>
    /\ panicked = FALSE
    /\ R = [CachePolicy |-> "default", ip4disabled |-> FALSE, ip6disabled |-> FALSE,
            systemServerAddrs |-> <<At(RootIP), At(Root2IP)>>]
    /\ pc = "idle"
    /\ resolver = [CachePolicy |-> "default", ip4disabled |-> FALSE,
                   ip6disabled |-> FALSE, systemServerAddrs |-> <<>>]
    /\ rset = NewRecordSet("", "", Question("", ""))
    /\ qerr = NoQueryError
    /\ stack = <<>>
    /\ trace = EmptyTrace
    /\ rootAddrs = <<>>
    /\ curAddr = ""
    /\ boot = [i |-> 1, err |-> NoErr]
    /\ net = [k \in {} |-> FALSE]
    /\ exchanged = FALSE
    /\ lastEx = NoEx
    /\ waiting = FALSE
    /\ prev = NoPrev
    /\ mu = NoThread
    /\ cmu = NoThread
    /\ thr = [t \in Threads |-> IdleThread]
    /\ invoked = NoCallMade

Calls == \E t \in Threads : QueryCall(t) \/ SetCall(t) \/ ClearCall(t)

Locks == \E t \in Threads :
            QueryLock(t) \/ LookupLock(t) \/ UpdateLock(t) \/ SetLock(t)
               \/ ClearLock(t)

Unlocks == \E t \in Threads :
              QuerySnapshot(t) \/ LookupReturn(t) \/ UpdateReturn(t)
                 \/ SetStore(t) \/ ClearReturn(t)

WalkMoves == \E t \in Threads : DoQueryCall(t) \/ QueryReturn(t)

Exchanges == \E t \in Threads : ExchangeReturn(t)

LockNext == Calls \/ Locks \/ Unlocks \/ WalkMoves \/ Exchanges

LockSpec == LockInit /\ [][LockNext]_vars

(* A thread that waits for a free mutex gets it in the end, and a thread   *)
(* that holds one goes on; nothing says that an exchange ever returns.     *)
LockFairSpec ==
    /\ LockSpec
    /\ \A t \in Threads :
          /\ SF_vars(QueryLock(t) \/ LookupLock(t) \/ UpdateLock(t)
                        \/ SetLock(t) \/ ClearLock(t))
          /\ WF_vars(QuerySnapshot(t) \/ LookupReturn(t) \/ UpdateReturn(t)
                        \/ SetStore(t) \/ ClearReturn(t))

----------------------------------------------------------------------------
(* The cache policies on their own: a Resolver made by New(), with one of  *)
(* the two policies, sends the question "A example.com." to a server and   *)
(* doQuery hands the policy the response that comes back.                  *)

MaxRecords == 2

(* the records of the responses: NS records of public suffixes and of a    *)
(* registered name, and a record of another type                          *)
PolicyRecords ==
    {RR(owner, "NS", ttl, Ns1Name) :
        owner \in {"com.", "uk.", "co.uk.", Domain}, ttl \in 0..(MaxTTL + 1)}
    \cup {RR("com.", "A", 1, Value)}

PolicyMsgs ==
    {Msg("NOERROR", FALSE, answer, ns, <<>>) :
        answer \in {<<>>, <<RR("com.", "A", 1, Value)>>,
                    <<RR("com.", "NS", 1, Ns2Name)>>},
        ns \in UNION {[1..n -> PolicyRecords] : n \in 0..MaxRecords}}
    \cup {Msg(rcode, aa, <<>>, ns, <<>>) :
             rcode \in {"NXDOMAIN", "SERVFAIL", "REFUSED"}, aa \in BOOLEAN,
             ns \in {<<>>, <<RR("com.", "NS", 1, Ns1Name)>>}}

PolicyInit ==
    /\ cache = New(DefaultCacheSize)
    /\ now = 0
    /\ last = NoCall
    /\ accessLog = <<>>
    /\ panicked = FALSE
    /\ \E policy \in {"default", "obey"} :
          R = [CachePolicy |-> policy, ip4disabled |-> FALSE,
               ip6disabled |-> FALSE, systemServerAddrs |-> <<At(RootIP)>>]
    /\ pc = "idle"
    /\ resolver = [CachePolicy |-> "default", ip4disabled |-> FALSE,
                   ip6disabled |-> FALSE, systemServerAddrs |-> <<>>]
    /\ rset = NewRecordSet("", "", Question("", ""))
    /\ qerr = NoQueryError
    /\ stack = <<>>
    /\ trace = EmptyTrace
    /\ rootAddrs = <<>>
    /\ curAddr = ""
    /\ boot = [i |-> 1, err |-> NoErr]
    /\ net = [k \in {} |-> FALSE]
    /\ exchanged = FALSE
    /\ lastEx = NoEx
    /\ waiting = FALSE
    /\ prev = NoPrev
    /\ LocksFree
    /\ \E m \in PolicyMsgs : invoked = [op |-> "response", msg |-> m, ttl |-> 0]

(* doQuery(q, addr) up to the call of ExchangeContext: r.cache.Lookup has  *)
(* found nothing and has released the lock of the cache                    *)
PolicySend ==
    /\ invoked.op = "response"
    /\ ~waiting
    /\ LET q    == Question(Domain, "A")
           addr == At(RootIP)
       IN /\ doQuery(R, cache, trace, q, addr, now, Failure(NoErr)).sent
          /\ cache' = Lookup(cache, <<q, addr>>, now).c
    /\ waiting' = TRUE
    /\ UNCHANGED <<now, last, accessLog, panicked, R, pc, resolver, rset, qerr,
                   stack, trace, rootAddrs, curAddr, boot, net, exchanged,
                   lastEx, prev>>
    /\ UNCHANGED <<lockVars, invoked>>

(* doQuery(q, addr) from the return of ExchangeContext with the response   *)
(* to its own return: the policy's answer for the response is noted, the   *)
(* cache is as doQuery leaves it, and trace.add(tn) has added the node of  *)
(* the call to the trace                                                   *)
PolicyExchange ==
    /\ invoked.op = "response"
    /\ waiting
    /\ LET q    == Question(Domain, "A")
           addr == At(RootIP)
       IN \E d \in Returns(R, q, addr, Response(invoked.msg)) :
          /\ cache' = d.cache
          /\ trace' = d.trace
          /\ invoked' = [op |-> "CachePolicy", msg |-> invoked.msg,
                         ttl |-> CachePolicy(R.CachePolicy,
                                     fromResponse(NewRecordSet(q.Name, q.Qtype, q),
                                                  invoked.msg, addr, -1, TRUE))]
    /\ waiting' = FALSE
    /\ UNCHANGED <<now, last, accessLog, panicked, R, pc, resolver, rset, qerr,
                   stack, rootAddrs, curAddr, boot, net, exchanged, lastEx, prev>>
    /\ UNCHANGED lockVars

PolicyNext == PolicySend \/ Wait \/ PolicyExchange

PolicySpec == PolicyInit /\ [][PolicyNext]_vars

----------------------------------------------------------------------------
(* Properties of the locks, checked under LockFairSpec *)

NoLockInExchange ==
    \A t \in Threads : thr[t].pc = "exchange" => mu # t /\ cmu # t

Waiting == {"wantMu", "wantLookup", "wantUpdate", "wantClear"}

(* C21: a thread that is inside a DNS exchange holds neither Resolver.mu   *)
(* nor Cache.mu; and, exchanges lasting as long as they like, every thread *)
(* that waits for one of the two mutexes in Query, SetBootstrapServers or  *)
(* ClearCache gets it.                                                     *)
C21_NoLockAcrossExchange ==
    /\ []NoLockInExchange
    /\ \A u \in Threads : (thr[u].pc \in Waiting) ~> (thr[u].pc \notin Waiting)

(* one thread is inside an exchange while the other, in ClearCache, holds  *)
(* the mutex of the cache that the first one released after its lookup     *)
C21_Witness ==
    /\ thr["t1"].pc = "exchange"
    /\ thr["t1"].key = <<RootQuestion, At(RootIP)>>
    /\ thr["t2"].pc = "clear"
    /\ cmu = "t2"
    /\ mu = NoThread

----------------------------------------------------------------------------
(* Properties of SetBootstrapServers, checked under BootSpec *)

(* what a caller means by an address he writes: the IP address and the     *)
(* port of "ip" and "ip:port", and no IP address for a host name           *)
Written(text) ==
    CASE text = "127.0.0.250"      -> [ip |-> "127.0.0.250", port |-> ""]
      [] text = "127.0.0.250:53"   -> [ip |-> "127.0.0.250", port |-> "53"]
      [] text = "127.0.0.251:5353" -> [ip |-> "127.0.0.251", port |-> "5353"]
      [] text = "2001:db8::1"      -> [ip |-> "2001:db8::1", port |-> ""]
      [] text = "[2001:db8::1]:"   -> [ip |-> "2001:db8::1", port |-> ""]
      [] OTHER                     -> [ip |-> "", port |-> ""]

(* the normalized form of a written address: the default port for none *)
Normalized(text) ==
    LET w == Written(text)
        p == IF w.port = "" THEN "53" ELSE w.port
    IN IF w.ip = "2001:db8::1" THEN "[2001:db8::1]:" \o p ELSE w.ip \o ":" \o p

(* list is args without the repetitions of a normalized address, in the    *)
(* order of the first occurrences                                          *)
DistinctInOrder(list, args) ==
    LET first(a) == CHOOSE i \in 1..Len(args) :
                       /\ Normalized(args[i]) = a
                       /\ \A j \in 1..(i - 1) : Normalized(args[j]) # a
    IN /\ {list[k] : k \in 1..Len(list)}
             = {Normalized(args[i]) : i \in 1..Len(args)}
       /\ \A k, l \in 1..Len(list) :
             k < l => list[k] # list[l] /\ first(list[k]) < first(list[l])

(* C22: a call of SetBootstrapServers whose addresses are all "ip" or      *)
(* "ip:port" returns no error and stores the list of their normalized      *)
(* forms (the default port for a bare IP), each once, in the order of the  *)
(* first occurrences; a call with an address whose host is not an IP       *)
(* address returns an error and leaves the stored list as it was.          *)
C22_SetBootstrapServersNormalizes ==
    [][ LET args == invoked'.args
            bad  == {i \in 1..Len(args) : Written(args[i]).ip = ""}
        IN invoked'.op = "SetBootstrapServers"
           => IF bad = {}
              THEN /\ invoked'.err = NoErr
                   /\ DistinctInOrder(R'.systemServerAddrs, args)
              ELSE /\ invoked'.err # NoErr
                   /\ R'.systemServerAddrs = R.systemServerAddrs ]_vars

(* After SetBootstrapServers("127.0.0.250", "127.0.0.250:53") stored one   *)
(* address, SetBootstrapServers("127.0.0.251:5353", "localhost:5353")      *)
(* failed and the list is as before                                        *)
C22_Witness ==
    /\ invoked.op = "SetBootstrapServers"
    /\ invoked.args = <<"127.0.0.251:5353", "localhost:5353">>
    /\ invoked.err = "not an ip address: localhost:5353"
    /\ R.systemServerAddrs = <<"127.0.0.250:53">>

----------------------------------------------------------------------------
(* Properties of the cache policies, checked under PolicySpec *)

(* the names of the Public Suffix List among the owners of the records *)
ListedSuffixes == {"com.", "uk.", "co.uk."}

(* the records of answer and authority of the response handed over *)
Handed == invoked.msg.Answer \o invoked.msg.Ns

(* a referral that delegates public suffixes and holds nothing else *)
SuffixDelegation ==
    /\ Handed # <<>>
    /\ \A i \in 1..Len(Handed) :
          Handed[i].Rrtype = "NS" /\ Handed[i].Name \in ListedSuffixes

LeastTtl ==
    CHOOSE x \in {Handed[i].Ttl : i \in 1..Len(Handed)} :
       \A i \in 1..Len(Handed) : x <= Handed[i].Ttl

Cached == <<Question(Domain, "A"), At(RootIP)>> \in DOMAIN cache.cache

(* C23: for a response whose answer and authority records are all NS       *)
(* records owned by public suffixes the default policy returns the least   *)
(* of their TTLs, and for every other response zero; under the default     *)
(* policy doQuery puts the response into the cache exactly if that         *)
(* duration is positive, for that duration.                                *)
C23_DefaultPolicyCachesSuffixDelegations ==
    (invoked.op = "CachePolicy" /\ R.CachePolicy = "default")
        => /\ invoked.ttl = IF SuffixDelegation THEN LeastTtl ELSE 0
           /\ Cached <=> invoked.ttl > 0
           /\ Cached =>
                LET ci == cache.cache[<<Question(Domain, "A"), At(RootIP)>>]
                IN ci.ttl = LeastTtl /\ ci.msg = invoked.msg /\ SuffixDelegation

(* a delegation of public suffixes with an NS record in the answer and two *)
(* in the authority section, of different TTLs, was cached for the least   *)
C23_Witness ==
    /\ invoked.op = "CachePolicy"
    /\ R.CachePolicy = "default"
    /\ Len(invoked.msg.Ns) = 2
    /\ invoked.msg.Ns[1].Ttl # invoked.msg.Ns[2].Ttl
    /\ invoked.msg.Answer # <<>>
    /\ invoked.ttl = 1
    /\ Cached

(* C24: the default policy returns zero for a delegation whose NS records  *)
(* do not all have the same owner, even if every owner is a public suffix, *)
(* and the least TTL if all of them have one public suffix as their owner. *)
C24_MixedOwnersAreNotCached ==
    (invoked.op = "CachePolicy" /\ R.CachePolicy = "default" /\ SuffixDelegation)
        => invoked.ttl = IF \A i \in 1..Len(Handed) : Handed[i].Name = Handed[1].Name
                         THEN LeastTtl ELSE 0

(* C25: under ObeyResponderAdvice(negativeTTL) a response with another     *)
(* rcode than success is given the duration negativeTTL, and a response    *)
(* with rcode success the TTL of its record set.                           *)
C25_NegativeTtlForFailures ==
    (invoked.op = "CachePolicy" /\ R.CachePolicy = "obey")
        => invoked.ttl = IF invoked.msg.Rcode # "NOERROR" THEN NegativeTTL
                         ELSE Preview(Question(Domain, "A"), At(RootIP),
                                      invoked.msg).TTL

----------------------------------------------------------------------------
(* Properties of the walk's fallbacks, checked with Spec *)

(* the top frame has no address left *)
EndpointsUsedUp == pc = "loop" /\ Len(stack) > 0 /\ Top(stack).addrs = <<>>

(* Query returns with the error "servers exhausted" *)
FailsExhausted == pc' = "done" /\ qerr' = QueryError("servers exhausted", NoErr)

(* the top frame goes on with its first alternate name at the root servers *)
TakesAlternateName ==
    /\ pc' \in {"loop", "retry"}
    /\ qerr' = NoQueryError
    /\ Len(stack') = Len(stack)
    /\ Top(stack).altNames # <<>>
    /\ Top(stack').q.Name = Top(stack).altNames[1]
    /\ Top(stack').altNames = Tail(Top(stack).altNames)

(* C26: when the top frame has no address left but still has alternate    *)
(* names, the walk goes on with the first alternate name at the root       *)
(* servers; Query fails with "servers exhausted" only when the frame has   *)
(* neither an address nor an alternate name left.                          *)
C26_ExhaustedOnlyWithoutAlternateNames ==
    [][/\ (EndpointsUsedUp /\ Top(stack).altNames # <<>>) => TakesAlternateName
       /\ FailsExhausted => (EndpointsUsedUp /\ Top(stack).altNames = <<>>)]_vars

(* an exchange of the walk made for a frame that looks for the addresses   *)
(* of a name server                                                        *)
GlueExchange ==
    /\ pc \in {"loop", "retry"}
    /\ Len(stack) > 1
    /\ trace'.nodes # trace.nodes

(* the addresses of the top frame that this exchange leaves untried *)
Untried == IF pc = "loop" THEN Tail(Top(stack).addrs) ELSE Top(stack).addrs

(* the response that the exchange brought: from the server, or from the    *)
(* cache, or none                                                          *)
Received ==
    LET key == <<lastEx'.q, lastEx'.addr>>
    IN IF lastEx'.err # NoErr THEN NoMsg
       ELSE IF lastEx'.sent THEN Brought
       ELSE cache.cache[key].msg

NoRecords(m) == m = NoMsg \/ (m.Answer = <<>> /\ m.Ns = <<>> /\ m.Extra = <<>>)

(* an empty response, and Query does not return with the exchange's error *)
EmptyNotTerminal ==
    /\ NoRecords(Received)
    /\ lastEx'.err \notin {ErrCircular, Canceled, DeadlineExceeded}

(* the empty response is answered by asking for A records *)
RetriedAsA == Top(stack).q.Qtype = "AAAA" /\ ~resolver'.ip4disabled

(* goto retry with the first alternate name and the root servers *)
ShiftsToAlternateName ==
    /\ TakesAlternateName
    /\ pc' = "retry"
    /\ curAddr' = rootAddrs[1]
    /\ Top(stack').addrs = Tail(rootAddrs)

(* C27: while resolving a name-server name (stack depth > 1), the first    *)
(* alternate name is tried only after all addresses for the current name   *)
(* have been used: while the frame still holds an untried address for the  *)
(* current name, its question name is not replaced by an alternate name.   *)
C27_AlternateNameOnlyAfterAllEndpoints ==
    [][(GlueExchange /\ Untried # <<>>) => ~ShiftsToAlternateName]_vars

(* the endpoint that the exchange asks *)
Asked == IF pc = "loop" THEN Endpoint(Head(Top(stack).addrs)) ELSE Endpoint(curAddr)

(* goto retry with the same name, the type A and the same endpoint *)
AsksSameEndpointForA ==
    /\ pc' = "retry"
    /\ qerr' = NoQueryError
    /\ curAddr' = Asked
    /\ Len(stack') = Len(stack)
    /\ Top(stack') = [Top(stack) EXCEPT !.q.Qtype = "A", !.addrs = Untried]

(* goto retry with the name that has just been asked *)
AsksSameNameAgain ==
    /\ pc' = "retry"
    /\ Len(stack') = Len(stack)
    /\ Top(stack').q.Name = Top(stack).q.Name

(* C28: while resolving glue (stack depth > 1), an empty response to an   *)
(* AAAA question is followed by a retry of the same endpoint with the      *)
(* question type A when IPv4 is enabled; when IPv4 is disabled, or the     *)
(* question was of type A already, the question is not put to the same     *)
(* endpoint again.                                                         *)
C28_EmptyAAAARetriedAsA ==
    [][(GlueExchange /\ EmptyNotTerminal) =>
          IF RetriedAsA THEN AsksSameEndpointForA ELSE ~AsksSameNameAgain]_vars

(* the first root server gave no records for "AAAA ns1.test." and is now   *)
(* to be asked for "A ns1.test."                                           *)
C28_Witness ==
    /\ pc = "retry"
    /\ Len(stack) = 2
    /\ ~resolver.ip4disabled
    /\ Top(stack).q = Question(Ns1Name, "A")
    /\ lastEx.q = Question(Ns1Name, "AAAA")
    /\ lastEx.rcode = "SERVFAIL"
    /\ lastEx.addr = At(RootIP)
    /\ curAddr = At(RootIP)

(* continue: the frame is left as it is, for its next address *)
ContinuesWithNextEndpoint ==
    /\ pc' = "loop"
    /\ qerr' = NoQueryError
    /\ Len(stack') = Len(stack)
    /\ Top(stack') = [Top(stack) EXCEPT !.addrs = Untried]

(* C29: while resolving glue (stack depth > 1), an empty response that    *)
(* leads neither to the retry with type A nor to an alternate name makes   *)
(* the walk continue with the next address of the same frame; Query does   *)
(* not return an error while the frame has untried addresses.              *)
C29_EmptyResponseSkipsEndpoint ==
    [][(/\ GlueExchange
        /\ EmptyNotTerminal
        /\ ~RetriedAsA
        /\ Top(stack).altNames = <<>>
        /\ Untried # <<>>) => ContinuesWithNextEndpoint]_vars

(* an exchange of the walk, for a frame at any depth *)
WalkExchange ==
    /\ pc \in {"loop", "retry"}
    /\ Len(stack) > 0
    /\ trace'.nodes # trace.nodes

(* the exchange brought an authoritative response with the rcode NOERROR   *)
(* that the empty-response branch does not take up                         *)
AuthoritativeAnswer ==
    /\ lastEx'.err = NoErr
    /\ lastEx'.rcode = "NOERROR"
    /\ Received.Authoritative
    /\ ~(/\ Len(stack) > 1
         /\ NoRecords(Received)
         /\ (RetriedAsA \/ Top(stack).altNames # <<>>))

(* the frames below the top frame *)
Below(st) == SubSeq(st, 1, Len(st) - 1)

(* the top frame and the trace level are gone, and the frame below has     *)
(* the addresses ips for its own question                                  *)
PoppedInto(ips) ==
    /\ pc' = "loop"
    /\ qerr' = NoQueryError
    /\ Len(stack') = Len(stack) - 1
    /\ Below(stack') = Below(Below(stack))
    /\ Top(stack') = [Top(Below(stack)) EXCEPT !.addrs = ips]
    /\ trace'.stack = Below(trace.stack)

(* the top frame is gone and the response has no address for the frame    *)
(* below: a frame for the first of the names takes its place, or Query     *)
(* returns an error                                                        *)
PoppedWithoutAddresses(names) ==
    /\ stack'[Len(stack) - 1] = stack[Len(stack) - 1]
    /\ Below(Below(stack')) = Below(Below(stack)) \/ Below(stack') = Below(Below(stack))
    /\ IF names # <<>>
       THEN /\ pc' = "loop"
            /\ Len(stack') = Len(stack)
            /\ Top(stack').q.Name = names[1]
            /\ Top(stack').altNames = Tail(names)
            /\ Top(stack').addrs = rootAddrs
       ELSE /\ pc' = "done"
            /\ qerr' = QueryError("empty response", NoErr)
            /\ Len(stack') = Len(stack) - 1

(* Query returns nil as its error *)
EndsWithResult == pc # "done" /\ pc' = "done" /\ qerr' = NoQueryError

(* the next address of the top frame is asked the frame's question *)
AsksTopQuestion ==
    LET n == trace'.nodes[Len(trace'.nodes)]
    IN /\ n.q = Top(stack).q
       /\ n.Server = Endpoint(Head(Top(stack).addrs))

(* C30: when an inner frame (glue resolution, stack depth > 1) receives   *)
(* an authoritative response, the frame and the trace level are popped and *)
(* the addresses found in the response become the addresses of the parent  *)
(* frame, which goes on with its own, unchanged question at them; only an  *)
(* authoritative response received by the outermost frame ends the walk    *)
(* with a result.                                                          *)
C30_InnerAnswerFeedsParentFrame ==
    [][/\ (WalkExchange /\ Len(stack) > 1 /\ AuthoritativeAnswer) =>
            IF referrals(resolver', Received).ips # <<>>
            THEN PoppedInto(referrals(resolver', Received).ips)
            ELSE PoppedWithoutAddresses(referrals(resolver', Received).names)
       /\ (WalkExchange /\ pc = "loop") => AsksTopQuestion
       /\ EndsWithResult =>
            /\ WalkExchange
            /\ Len(stack) = 1
            /\ AuthoritativeAnswer
            /\ stack' = <<>>
            /\ rset'.Raw = Received]_vars

(* the address of ns1.test., answered by a root server to the inner frame, *)
(* is now the one address of the frame for example.com.                    *)
C30_Witness ==
    /\ pc = "loop"
    /\ Len(stack) = 1
    /\ Top(stack).q = Question(Domain, "A")
    /\ Top(stack).addrs = <<Ns1IP>>
    /\ trace.stack = <<>>
    /\ lastEx.depth = 2
    /\ lastEx.q = Question(Ns1Name, "A")
    /\ lastEx.rcode = "NOERROR"

----------------------------------------------------------------------------
(* normalize and referrals on their own: a response is drawn, and          *)
(* normalize and r.referrals are applied to it.                            *)

MaxAnswer == 2

V1 == "192.0.2.1"

(* the records of the answer and authority sections *)
NormTop ==
    {RR("x.", "CNAME", 3, "a."), RR("x.", "NS", 1, "b."), RR("x.", "A", 2, V1),
     RR("y.", "CNAME", 2, "a."), RR("x.", "NS", 3, "n."), RR("b.", "A", 2, V1)}

(* the records of the additional section, in the order of the section *)
NormZone ==
    <<RR("a.", "CNAME", 2, "d."), RR("a.", "CNAME", 3, "b."),
      RR("b.", "CNAME", 3, "d."), RR("d.", "A", 3, V1), RR("b.", "A", 2, V1),
      RR("d.", "CNAME", 1, "a."), RR("a.", "NS", 2, "b.")>>

RECURSIVE Pick(_, _, _)
Pick(list, S, i) ==
    IF i > Len(list) THEN <<>>
    ELSE (IF i \in S THEN <<list[i]>> ELSE <<>>) \o Pick(list, S, i + 1)

RECURSIVE Reverse(_)
Reverse(list) == IF list = <<>> THEN <<>> ELSE Append(Reverse(Tail(list)), Head(list))

NormMsgs ==
    {Msg("NOERROR", FALSE, IF inAnswer THEN top ELSE <<>>,
         IF inAnswer THEN <<>> ELSE top, extra) :
        top \in UNION {[1..n -> NormTop] : n \in 0..MaxAnswer},
        inAnswer \in BOOLEAN,
        extra \in {Pick(NormZone, S, 1) : S \in SUBSET (1..Len(NormZone))}
                  \cup {Pick(Reverse(NormZone), S, 1) : S \in SUBSET (1..Len(NormZone))}}

NormInit ==
    /\ cache = New(DefaultCacheSize)
    /\ now = 0
    /\ last = NoCall
    /\ accessLog = <<>>
    /\ panicked = FALSE
    /\ R = [CachePolicy |-> "default", ip4disabled |-> FALSE,
            ip6disabled |-> FALSE, systemServerAddrs |-> <<At(RootIP)>>]
    /\ pc = "idle"
    /\ resolver = [CachePolicy |-> "default", ip4disabled |-> FALSE,
                   ip6disabled |-> FALSE, systemServerAddrs |-> <<>>]
    /\ rset = NewRecordSet("", "", Question("", ""))
    /\ qerr = NoQueryError
    /\ stack = <<>>
    /\ trace = EmptyTrace
    /\ rootAddrs = <<>>
    /\ curAddr = ""
    /\ boot = [i |-> 1, err |-> NoErr]
    /\ net = [k \in {} |-> FALSE]
    /\ exchanged = FALSE
    /\ lastEx = NoEx
    /\ waiting = FALSE
    /\ prev = NoPrev
    /\ LocksFree
    /\ \E m \in NormMsgs : invoked = [op |-> "response", msg |-> m]

(* xs := normalize(m), and ips, names := r.referrals(m) *)
Normalize ==
    /\ invoked.op = "response"
    /\ \E xs \in {normalize(invoked.msg)}, ref \in {referrals(R, invoked.msg)} :
          invoked' = [op |-> "normalize", msg |-> invoked.msg, xs |-> xs,
                      ips |-> ref.ips, names |-> ref.names]
    /\ UNCHANGED <<cacheVars, walkVars, lockVars>>

NormSpec == NormInit /\ [][Normalize]_vars

----------------------------------------------------------------------------
(* The address iterator on its own: newAddrIter over the records of a      *)
(* referral, and calls of Next by the code that asks the name servers.     *)

EOF == "EOF"

NoIter == [nil |-> TRUE]

NoRR == RR("", "", 0, "")

(* nsResponseSet.tryMapIPs: the A and AAAA records of the additional       *)
(* section for the name value, or the record rr itself when there is none  *)
tryMapIPs(m, rr, value) ==
    LET rrs == SelectSeq(m.Extra, LAMBDA x : x.Name = value /\ x.Rrtype \in {"A", "AAAA"})
    IN IF Len(rrs) = 0 THEN <<rr>> ELSE rrs

(* nsResponseSet.Addrs: the loop over Answer and Ns from index i on *)
RECURSIVE nsResponseSetAddrs(_, _)
nsResponseSetAddrs(m, i) ==
    IF i > Len(m.Answer \o m.Ns) THEN <<>>
    ELSE LET rr == (m.Answer \o m.Ns)[i]
         IN (CASE rr.Rrtype \in {"A", "AAAA"} -> <<rr>>
               [] rr.Rrtype = "CNAME" -> tryMapIPs(m, rr, rr.Data)
               [] rr.Rrtype = "NS" ->
                    IF ParseIP(rr.Data) THEN <<rr>> ELSE tryMapIPs(m, rr, rr.Data)
               [] OTHER -> <<>>)
            \o nsResponseSetAddrs(m, i + 1)

(* newAddrIter(r, nsSet, trace) *)
newAddrIter(m) == [records |-> nsResponseSetAddrs(m, 1), inner |-> NoIter]

(* the questions for the target of an NS or CNAME record, type A first *)
questionsAFirst(rv, target) ==
    (IF ~rv.ip4disabled THEN <<Question(target, "A")>> ELSE <<>>)
    \o (IF ~rv.ip6disabled THEN <<Question(target, "AAAA")>> ELSE <<>>)

(* addressIterator.addrFromRR, from `var qs []dns.Question` on *)
questions(rv, target) ==
    (IF ~rv.ip6disabled THEN <<Question(target, "AAAA")>> ELSE <<>>)
    \o (IF ~rv.ip4disabled THEN <<Question(target, "A")>> ELSE <<>>)

(* addressIterator.addrFromRR: the endpoint of an A or AAAA record, or the *)
(* queryIterator that it installs as it.inner for an NS or CNAME record    *)
(* a record of another type makes it panic; SRV records, which stand for   *)
(* configured servers, are in no response and have no case here            *)
addrFromRR(rv, rr) ==
    CASE rr.Rrtype \in {"A", "AAAA"} ->
            [addr |-> JoinHostPort(rr.Data, DefaultPort), err |-> NoErr,
             inner |-> NoIter]
      [] rr.Rrtype \in {"CNAME", "NS"} ->
            [addr |-> "", err |-> NoErr,
             inner |-> [traceRoot |-> rr, queries |-> questions(rv, rr.Data),
                        inner |-> NoIter]]
      [] OTHER ->
            [addr |-> "", err |-> "panic: unexpected record type", inner |-> NoIter]

(* Resolver.queryIteratively(ctx, q, trace): the response that the walk    *)
(* for the question q ends with                                            *)
queryIteratively(zone, q) == zone[q]

IterResult(it, rr, addr, err, asked) ==
    [it |-> it, rr |-> rr, addr |-> addr, err |-> err, asked |-> asked]

(* addressIterator.Next and queryIterator.Next on the iterator it: the     *)
(* iterator after the call, what the call returns, and the questions that  *)
(* it has passed to queryIteratively                                       *)
RECURSIVE addressIteratorNext(_, _, _)
RECURSIVE queryIteratorNext(_, _, _)

addressIteratorNext(it, rv, zone) ==
    LET r1 == queryIteratorNext(it.inner, rv, zone)
    IN IF it.inner # NoIter /\ r1.err # EOF
       THEN IterResult([it EXCEPT !.inner = r1.it], r1.rr, r1.addr, r1.err, r1.asked)
       ELSE LET before == IF it.inner # NoIter THEN r1.asked ELSE <<>>
            IN IF Len(it.records) = 0
               THEN IterResult([it EXCEPT !.inner = NoIter], NoRR, "", EOF, before)
               ELSE LET rr == it.records[1]
                        a  == addrFromRR(rv, rr)
                        r2 == queryIteratorNext(a.inner, rv, zone)
                    IN IF a.inner # NoIter
                       THEN IterResult([records |-> Tail(it.records), inner |-> r2.it],
                                       r2.rr, r2.addr, r2.err, before \o r2.asked)
                       ELSE IterResult([records |-> Tail(it.records), inner |-> NoIter],
                                       rr, a.addr, a.err, before)

queryIteratorNext(it, rv, zone) ==
    LET r1 == addressIteratorNext(it.inner, rv, zone)
    IN IF it.inner # NoIter /\ r1.err # EOF
       THEN IterResult([it EXCEPT !.inner = r1.it], r1.rr, r1.addr, r1.err, r1.asked)
       ELSE LET before == IF it.inner # NoIter THEN r1.asked ELSE <<>>
            IN IF Len(it.queries) = 0
               THEN IterResult([it EXCEPT !.inner = NoIter], NoRR, "", EOF, before)
               ELSE LET q    == it.queries[1]
                        resp == queryIteratively(zone, q)
                        r2   == queryIteratorNext(
                                    [it EXCEPT !.queries = Tail(@),
                                               !.inner = newAddrIter(resp)], rv, zone)
                    IN [r2 EXCEPT !.asked = before \o <<q>> \o @]

MaxOuter == 2

Ns3Name == "ns3.test."
IterZone == "test."

(* the records of a referral for test.: name servers with and without an   *)
(* address in the additional section, and an alias                         *)
OuterRecords == {RR(IterZone, "NS", 1, Ns1Name), RR(IterZone, "NS", 1, Ns2Name),
                 RR(IterZone, "NS", 1, Ns3Name), RR(IterZone, "CNAME", 1, Ns2Name)}

Glue == <<RR(Ns3Name, "A", 1, RootIP), RR(Ns3Name, "AAAA", 1, Ns6IP)>>

IterReferrals == {Msg("NOERROR", FALSE, <<>>, ns, Glue) :
                 ns \in UNION {[1..n -> OuterRecords] : n \in 0..MaxOuter}}

IterAnswer(rrs) == Msg("NOERROR", TRUE, rrs, <<>>, <<>>)

(* what the name servers hold for the names of the name servers *)
IterAnswers(q) ==
    CASE q = Question(Ns1Name, "AAAA") ->
            {IterAnswer(<<>>), IterAnswer(<<RR(Ns1Name, "AAAA", 1, Ns6IP)>>)}
      [] q = Question(Ns1Name, "A") ->
            {IterAnswer(<<>>), IterAnswer(<<RR(Ns1Name, "A", 1, "127.0.0.101")>>),
             IterAnswer(<<RR(Ns1Name, "A", 1, "127.0.0.101"),
                      RR(Ns1Name, "A", 1, "127.0.0.102")>>),
             IterAnswer(<<RR(Ns1Name, "CNAME", 1, Ns2Name)>>)}
      [] q = Question(Ns2Name, "AAAA") ->
            {IterAnswer(<<>>), IterAnswer(<<RR(Ns2Name, "AAAA", 1, Ns6IP)>>)}
      [] q = Question(Ns2Name, "A") ->
            {IterAnswer(<<>>), IterAnswer(<<RR(Ns2Name, "A", 1, "127.0.0.102")>>)}

IterQuestions == {Question(n, t) : n \in {Ns1Name, Ns2Name}, t \in {"AAAA", "A"}}

Zones == {z \in [IterQuestions -> UNION {IterAnswers(q) : q \in IterQuestions}] :
             \A q \in IterQuestions : z[q] \in IterAnswers(q)}

IterInit ==
    /\ cache = New(DefaultCacheSize)
    /\ now = 0
    /\ last = NoCall
    /\ accessLog = <<>>
    /\ panicked = FALSE
    /\ \E ip4 \in BOOLEAN, ip6 \in BOOLEAN :
          R = [CachePolicy |-> "default", ip4disabled |-> ip4, ip6disabled |-> ip6,
               systemServerAddrs |-> <<At(RootIP)>>]
    /\ pc = "idle"
    /\ resolver = [CachePolicy |-> "default", ip4disabled |-> FALSE,
                   ip6disabled |-> FALSE, systemServerAddrs |-> <<>>]
    /\ rset = NewRecordSet("", "", Question("", ""))
    /\ qerr = NoQueryError
    /\ stack = <<>>
    /\ trace = EmptyTrace
    /\ rootAddrs = <<>>
    /\ curAddr = ""
    /\ boot = [i |-> 1, err |-> NoErr]
    /\ net = [k \in {} |-> FALSE]
    /\ exchanged = FALSE
    /\ lastEx = NoEx
    /\ waiting = FALSE
    /\ prev = NoPrev
    /\ LocksFree
    /\ \E m \in IterReferrals, zone \in Zones :
          invoked = [op |-> "iterate", msg |-> m, zone |-> zone,
                     it |-> newAddrIter(m), out |-> <<>>, log |-> <<>>]

(* what the caller and the name servers see of the iterator: a question   *)
(* passed to queryIteratively, a record and its endpoint returned by Next  *)
Ask(q) == [ev |-> "ask", q |-> q]
Yield(rr, addr) == [ev |-> "yield", rr |-> rr, addr |-> addr]

(* rr, addr, err := it.Next(ctx), called again until the iterator has      *)
(* nothing left                                                            *)
IterNext ==
    /\ invoked.op = "iterate"
    /\ invoked.it.records # <<>> \/ invoked.it.inner # NoIter \/ invoked.out = <<>>
    /\ \E r \in {addressIteratorNext(invoked.it, R, invoked.zone)} :
          invoked' = [invoked EXCEPT
                         !.it = r.it,
                         !.out = Append(@, [rr |-> r.rr, addr |-> r.addr, err |-> r.err]),
                         !.log = @ \o [i \in 1..Len(r.asked) |-> Ask(r.asked[i])]
                                   \o (IF r.err = EOF THEN <<>>
                                       ELSE <<Yield(r.rr, r.addr)>>)]
    /\ UNCHANGED <<cacheVars, walkVars, lockVars>>

IterSpec == IterInit /\ [][IterNext]_vars


----------------------------------------------------------------------------
(* Properties of normalize and referrals, checked with NormSpec *)

Normalized1 == invoked.op = "normalize"

IsLink(rr) == rr.Rrtype \in {"CNAME", "NS"}

(* all records of the response, as normalize reads them *)
AllOf(m) == m.Answer \o m.Ns \o m.Extra

(* C31: for every response R, normalize(R) contains no CNAME or NS record  *)
(* whose target name is the owner name of another record of normalize(R).  *)
C31_NoLinkToAnOwnerOfTheOutput ==
    Normalized1 =>
        \A i \in 1..Len(invoked.xs) :
            IsLink(invoked.xs[i]) =>
                \A j \in 1..Len(invoked.xs) :
                    j # i => invoked.xs[j].Name # invoked.xs[i].Data

(* a chain x. -> a. -> d. was collapsed to the address of d., and the NS   *)
(* record whose target has no record stays                                 *)
C31_Witness ==
    /\ Normalized1
    /\ invoked.msg.Answer = <<RR("x.", "CNAME", 3, "a."), RR("x.", "NS", 3, "n.")>>
    /\ invoked.msg.Extra = <<RR("a.", "CNAME", 2, "d."), RR("d.", "A", 3, V1)>>
    /\ invoked.xs = <<RR("x.", "A", 2, V1), RR("x.", "NS", 3, "n.")>>

Least(a, b) == IF a < b THEN a ELSE b

(* the records at the ends of the chains of CNAME records that start at    *)
(* name, each with the least TTL of its chain, least being the least TTL   *)
(* before name; a chain has at most fuel CNAME records                     *)
RECURSIVE Ends(_, _, _, _)
Ends(all, name, least, fuel) ==
    UNION {IF all[i].Name # name THEN {}
           ELSE {<<all[i].Rrtype, all[i].Data, Least(least, all[i].Ttl)>>}
                \cup (IF all[i].Rrtype = "CNAME" /\ fuel > 0
                      THEN Ends(all, all[i].Data, Least(least, all[i].Ttl), fuel - 1)
                      ELSE {}) : i \in 1..Len(all)}

(* the record o of the output comes from the top-level record t: it is t,  *)
(* or the end of a chain that starts at t's target, and its TTL is not     *)
(* above the least TTL of t and of the chain                               *)
ComesFrom(o, t, all) ==
    /\ o.Name = t.Name
    /\ \/ o.Rrtype = t.Rrtype /\ o.Data = t.Data /\ o.Ttl <= t.Ttl
       \/ /\ IsLink(t)
          /\ \E e \in Ends(all, t.Data, t.Ttl, Len(all)) :
                e[1] = o.Rrtype /\ e[2] = o.Data /\ o.Ttl <= e[3]

(* C32: for every response R, each record of normalize(R) has a TTL no     *)
(* greater than the least TTL of the records of R along the CNAME/NS       *)
(* chain that produced it: the top-level record, every CNAME in between    *)
(* and the record at the end.                                              *)
C32_TtlAtMostLeastOfChain ==
    Normalized1 =>
        \A i \in 1..Len(invoked.xs) :
            \E k \in 1..Len(invoked.msg.Answer \o invoked.msg.Ns) :
                ComesFrom(invoked.xs[i], (invoked.msg.Answer \o invoked.msg.Ns)[k],
                          AllOf(invoked.msg))

(* x. CNAME a. (3), a. CNAME d. (2), d. A (3): the address has the TTL 2 *)
C32_Witness ==
    /\ Normalized1
    /\ invoked.msg.Answer = <<RR("x.", "CNAME", 3, "a.")>>
    /\ invoked.msg.Extra = <<RR("a.", "CNAME", 2, "d."), RR("d.", "A", 3, V1)>>
    /\ invoked.xs = <<RR("x.", "A", 2, V1)>>

(* what makes two records the same record: owner, type and value *)
SameRecord(a, b) == a.Name = b.Name /\ a.Rrtype = b.Rrtype /\ a.Data = b.Data

(* C33: normalize(R) never contains the same record twice: when several   *)
(* top-level records collapse to the same (name, type, value), or R itself *)
(* repeats a record, the output holds that record once, and its length is  *)
(* the number of distinct records.                                         *)
C33_NoRecordTwice ==
    Normalized1 =>
        /\ \A i, j \in 1..Len(invoked.xs) :
              i # j => ~SameRecord(invoked.xs[i], invoked.xs[j])
        /\ Len(invoked.xs) =
              Cardinality({<<invoked.xs[i].Name, invoked.xs[i].Rrtype,
                             invoked.xs[i].Data>> : i \in 1..Len(invoked.xs)})

(* a chain of CNAME records that starts at name comes to a name it has     *)
(* visited, visited being the names before name; at most fuel records      *)
RECURSIVE Revisits(_, _, _, _)
Revisits(all, name, visited, fuel) ==
    \/ name \in visited
    \/ /\ fuel > 0
       /\ \E i \in 1..Len(all) :
             /\ all[i].Name = name
             /\ all[i].Rrtype = "CNAME"
             /\ Revisits(all, all[i].Data, visited \cup {name}, fuel - 1)

(* the top-level record t has a circular chain *)
Circular(t, all) == IsLink(t) /\ Revisits(all, t.Data, {t.Name}, Len(all))

(* what the top-level record t adds to the records of normalize *)
Contribution(t, all) == normalizeLoop(all, <<t>>, <<>>)

(* C34: a top-level CNAME or NS record whose chain through the records of *)
(* R returns to a name already visited contributes nothing to              *)
(* normalize(R), and so neither an address nor a name to referrals(R);     *)
(* normalize ends on such a response.                                      *)
C34_CircularChainsContributeNothing ==
    Normalized1 =>
        LET top == invoked.msg.Answer \o invoked.msg.Ns
            all == AllOf(invoked.msg)
        IN /\ \A k \in 1..Len(top) :
                 Circular(top[k], all) => Contribution(top[k], all) = <<>>
           /\ (\A k \in 1..Len(top) : Circular(top[k], all)) =>
                 /\ invoked.xs = <<>>
                 /\ invoked.ips = <<>>
                 /\ invoked.names = <<>>

(* x. CNAME a., a. CNAME d., d. CNAME a.: nothing comes out *)
C34_Witness ==
    /\ Normalized1
    /\ invoked.msg.Answer = <<RR("x.", "CNAME", 3, "a.")>>
    /\ invoked.msg.Extra = <<RR("a.", "CNAME", 2, "d."), RR("d.", "A", 3, V1),
                             RR("d.", "CNAME", 1, "a.")>>
    /\ invoked.xs = <<>>
    /\ invoked.ips = <<>>
    /\ invoked.names = <<>>

(* the records that end the chains from the top-level record t: what the   *)
(* CNAME records lead to from t's target that is not itself a CNAME record *)
Terminals(t, all) == {e \in Ends(all, t.Data, t.Ttl, Len(all)) : e[1] # "CNAME"}

(* C39: normalize drops a top-level CNAME or NS record as circular only    *)
(* when its chain comes back to a name along one path; a record whose      *)
(* chain has no such path, though two of its branches reach the same name, *)
(* is not dropped: every record at the end of one of its chains is in      *)
(* what it adds to normalize(R), under the owner name of the record.       *)
C39_DiamondStillContributes ==
    Normalized1 =>
        LET top == invoked.msg.Answer \o invoked.msg.Ns
            all == AllOf(invoked.msg)
        IN \A k \in 1..Len(top) :
              /\ IsLink(top[k])
              /\ top[k].Name \notin mapped(all)
              /\ ~Circular(top[k], all)
              => /\ Contribution(top[k], all) # <<>>
                 /\ \A e \in Terminals(top[k], all) :
                       \E i \in 1..Len(Contribution(top[k], all)) :
                          /\ Contribution(top[k], all)[i].Name = top[k].Name
                          /\ Contribution(top[k], all)[i].Rrtype = e[1]
                          /\ Contribution(top[k], all)[i].Data = e[2]

----------------------------------------------------------------------------
(* Properties of failed exchanges in the walk, checked with Spec *)

(* the exchange failed without a response, and Query does not return with  *)
(* its error                                                               *)
FailedNotTerminal ==
    lastEx'.err \notin {NoErr, ErrCircular, Canceled, DeadlineExceeded}

(* a response was received and holds no record *)
ReceivedEmpty == lastEx'.err = NoErr /\ NoRecords(Received)

(* C36: while resolving a name server's name (stack depth > 1) the retry   *)
(* with the type A and the shift to an alternate name happen only after a  *)
(* response was received that holds no record; an exchange that failed     *)
(* with a transport error, without any response, only skips the endpoint:  *)
(* the frame keeps its question type, its question name and its remaining  *)
(* addresses.                                                              *)
C36_RetryOnlyAfterReceivedResponse ==
    [][/\ (GlueExchange /\ (AsksSameEndpointForA \/ ShiftsToAlternateName))
            => ReceivedEmpty
       /\ (GlueExchange /\ FailedNotTerminal) => ContinuesWithNextEndpoint]_vars

----------------------------------------------------------------------------
(* Properties of the Resolver's flags, checked with ConcSpec *)

(* a call of Query starts in this step *)
QueryStarts == pc \in {"idle", "done"} /\ pc' = "bootstrap"

(* C40: disabling an address family after ENETUNREACH stays in the value   *)
(* of the call: no step changes the IPv4 and IPv6 flags of the shared      *)
(* Resolver, so a call of Query that starts later, or while another is     *)
(* running, starts with the flags as they were configured.                 *)
C40_SharedFlagsAreNeverChanged ==
    [][/\ R'.ip4disabled = R.ip4disabled
       /\ R'.ip6disabled = R.ip6disabled
       /\ QueryStarts =>
             /\ resolver'.ip4disabled = R.ip4disabled
             /\ resolver'.ip6disabled = R.ip6disabled]_vars

(* a call has ended with IPv4 disabled after ENETUNREACH in its walk, the  *)
(* Resolver has IPv4 enabled, and another call can start                   *)
C40_Witness ==
    /\ pc = "done"
    /\ Unreachable(trace, TRUE, TRUE)
    /\ resolver.ip4disabled
    /\ ~R.ip4disabled
    /\ now < MaxTime

----------------------------------------------------------------------------
(* Properties of the trace's stack of parent nodes, checked with Spec *)

(* C38: at the start of every round of the walk's loop the trace's stack   *)
(* of parent nodes has exactly one level fewer than the walk's stack has   *)
(* frames, and Trace.push is called only when the current level of the     *)
(* trace holds a node: every element of the trace's stack is a node of the *)
(* trace, never the last of an empty list.                                 *)
C38_TraceStackFollowsWalkStack ==
    /\ pc = "loop" =>
          /\ Len(stack) > 0
          /\ Len(trace.stack) = Len(stack) - 1
    /\ \A i \in 1..Len(trace.stack) : trace.stack[i] \in 1..Len(trace.nodes)

(* the walk is at the head of the loop with a frame for a name server's    *)
(* name, and a question of that frame is in the trace below the node that  *)
(* Trace.push has taken                                                    *)
C38_Witness ==
    /\ pc = "loop"
    /\ Len(stack) = 2
    /\ Len(trace.stack) = 1
    /\ \E i \in 1..Len(trace.nodes) : trace.nodes[i].parent = trace.stack[1]

----------------------------------------------------------------------------
(* Properties of the address iterator, checked with IterSpec *)

Iterating == invoked.op = "iterate"

(* the records of the iterator at its construction *)
OuterOf(m) == nsResponseSetAddrs(m, 1)

(* what is to be seen of an iterator over records, in order: an A or AAAA  *)
(* record is handed over with its endpoint; for an NS or CNAME record the  *)
(* target is asked for AAAA when IPv6 is enabled and all of that response  *)
(* is handed over, then it is asked for A when IPv4 is enabled and all of  *)
(* that response is handed over; then comes the next record                *)
RECURSIVE Events(_, _, _)
Events(records, rv, zone) ==
    IF records = <<>> THEN <<>>
    ELSE LET rr == Head(records)
             of(t) == <<Ask(Question(rr.Data, t))>>
                      \o Events(OuterOf(zone[Question(rr.Data, t)]), rv, zone)
         IN (IF rr.Rrtype \in {"A", "AAAA"}
             THEN <<Yield(rr, JoinHostPort(rr.Data, DefaultPort))>>
             ELSE (IF rv.ip6disabled THEN <<>> ELSE of("AAAA"))
                  \o (IF rv.ip4disabled THEN <<>> ELSE of("A")))
            \o Events(Tail(records), rv, zone)

IsPrefix(a, b) == Len(a) <= Len(b) /\ a = SubSeq(b, 1, Len(a))

(* what an iterator has left: records, or questions *)
Left(it) == IF "records" \in DOMAIN it THEN it.records ELSE it.queries

(* the iterator has nothing left, and neither has any iterator inside it *)
RECURSIVE Exhausted(_)
Exhausted(it) == it = NoIter \/ (Left(it) = <<>> /\ Exhausted(it.inner))

(* C35: the address iterator yields endpoints in the order of its         *)
(* records; for an NS or CNAME record it issues the sub-queries for the    *)
(* target name, AAAA first when IPv6 is enabled, then A when IPv4 is       *)
(* enabled, and hands every endpoint obtained from them to the caller      *)
(* before it advances to the next outer record.                            *)
C35_EndpointsInRecordOrder ==
    Iterating =>
        LET expected == Events(OuterOf(invoked.msg), R, invoked.zone)
        IN /\ IsPrefix(invoked.log, expected)
           /\ Exhausted(invoked.it) => invoked.log = expected

(* both families enabled; ns1.test. has an AAAA and two A records, and     *)
(* ns3.test. comes with its addresses: all five endpoints were handed over *)
(* in order                                                                *)
C35_Witness ==
    /\ Iterating
    /\ ~R.ip4disabled /\ ~R.ip6disabled
    /\ invoked.msg.Ns = <<RR(IterZone, "NS", 1, Ns1Name), RR(IterZone, "NS", 1, Ns3Name)>>
    /\ invoked.log =
          <<Ask(Question(Ns1Name, "AAAA")),
            Yield(RR(Ns1Name, "AAAA", 1, Ns6IP), "[2001:db8::1]:53"),
            Ask(Question(Ns1Name, "A")),
            Yield(RR(Ns1Name, "A", 1, "127.0.0.101"), "127.0.0.101:53"),
            Yield(RR(Ns1Name, "A", 1, "127.0.0.102"), "127.0.0.102:53"),
            Yield(RR(Ns3Name, "A", 1, RootIP), "127.0.0.250:53"),
            Yield(RR(Ns3Name, "AAAA", 1, Ns6IP), "[2001:db8::1]:53")>>

(* C37: addressIterator.Next reports the end of the sequence (io.EOF)     *)
(* only when every outer record has been consumed and every inner          *)
(* iterator is exhausted; an NS or CNAME record whose sub-queries yield no *)
(* address does not make Next return io.EOF while later outer records      *)
(* remain.                                                                 *)
C37_EndOnlyWhenNothingIsLeft ==
    (/\ Iterating
     /\ invoked.out # <<>>
     /\ invoked.out[Len(invoked.out)].err = EOF) => Exhausted(invoked.it)

============================================================================
